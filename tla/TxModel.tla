------------------------------- MODULE TxModel -------------------------------
(***************************************************************************)
(* What a transaction of a block is, what executing one does to the        *)
(* accounts and storage slots of a WitnessDatabase, and the serial         *)
(* execution of a block: the reference the parallel executors of           *)
(* crates/consensus/src/parallel.rs are compared with.                     *)
(*                                                                         *)
(* An address of the code is a member of Addrs, an (address, slot) pair a  *)
(* member of Slots.  The executors treat the two maps of a database alike, *)
(* so a database is one function on Items.                                 *)
(***************************************************************************)
EXTENDS Naturals, Sequences, FiniteSetsExt

CONSTANTS
  Addrs,     \* the accounts
  Slots,     \* the (address, slot) pairs
  Genesis    \* the database execution starts from

Items == Addrs \cup Slots

(***************************************************************************)
(* The code writes `slot + tx_index + 1` to a slot: for a given slot that  *)
(* names the writer and nothing else, so a slot holds its writer's index   *)
(* (indices start at 1 here) and 0 is a slot nobody wrote.                 *)
(***************************************************************************)
Account == [balance : Nat, nonce : Nat]
Slot == [writer : Nat]
Value == Account \cup Slot
ValueOf(x) == IF x \in Addrs THEN Account ELSE Slot
Database == {d \in [Items -> Value] : \A x \in Items : d[x] \in ValueOf(x)}

(* reads and writes are the declared access list, addresses and slots      *)
(* together; nothing obliges a list to name the sender or the recipient.   *)
Tx == [sender : Addrs, recipient : Addrs, value : Nat, nonce : Nat,
       reads : SUBSET Items, writes : SUBSET Items]

ASSUME ItemsAssumption == Addrs \cap Slots = {}
ASSUME GenesisAssumption == Genesis \in Database

-----------------------------------------------------------------------------
(* The nonce and balance checks of an execution thread, and its effects.   *)

CanExecute(acc, tx) == acc.nonce = tx.nonce /\ acc.balance >= tx.value

Debit(acc, tx) == [balance |-> acc.balance - tx.value, nonce |-> acc.nonce + 1]
Credit(acc, tx) == [acc EXCEPT !.balance = @ + tx.value]

WriteSet(tx) == {tx.sender, tx.recipient} \cup (tx.writes \cap Slots)

(* The values transaction number i leaves behind when it found its sender  *)
(* and recipient as s and r.  Both accounts are computed from what was     *)
(* read and the recipient's is stored last.                                *)
Effects(tx, i, s, r) ==
  [x \in WriteSet(tx) |->
     IF x = tx.recipient THEN Credit(r, tx)
     ELSE IF x = tx.sender THEN Debit(s, tx)
     ELSE [writer |-> i]]

Overlay(d, w) == [x \in Items |-> IF x \in DOMAIN w THEN w[x] ELSE d[x]]

-----------------------------------------------------------------------------
(* Serial execution of the transactions numbered order[1], order[2], ...   *)
(* of blk: what the block means if nothing runs in parallel.  ok turns     *)
(* FALSE, and the database stays where it was, at the first transaction    *)
(* whose checks fail.                                                      *)

SerialStep(run, tx, i) ==
  IF run.ok /\ CanExecute(run.db[tx.sender], tx)
  THEN [ok |-> TRUE,
        db |-> Overlay(run.db, Effects(tx, i, run.db[tx.sender], run.db[tx.recipient]))]
  ELSE [ok |-> FALSE, db |-> run.db]

SerialRun(blk, order) ==
  LET run[k \in 0..Len(order)] ==
        IF k = 0 THEN [ok |-> TRUE, db |-> Genesis]
        ELSE SerialStep(run[k - 1], blk[order[k]], order[k])
  IN  run

Serial(blk, order) == SerialRun(blk, order)[Len(order)]

BlockOrder(blk) == [k \in 1..Len(blk) |-> k]
==============================================================================
