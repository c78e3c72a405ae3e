------------------------------- MODULE WaveExec -------------------------------
(***************************************************************************)
(* WaveExecutor of crates/consensus/src/parallel.rs (GrevmExecutor runs    *)
(* the same two phases and keeps a trace besides).  The block is first cut *)
(* into waves by the declared access lists alone: the list is scanned over *)
(* and over, and each scan takes every transaction left that conflicts     *)
(* with none it took before.  Then, wave by wave, one thread per           *)
(* transaction computes on a copy of the database, the main thread joins   *)
(* them in order, returns the first error it meets, and otherwise stores   *)
(* all results.                                                            *)
(*                                                                         *)
(* tx_index is the position in the block, as the tests number it: with two *)
(* equal indices the partitioner's loop would not end.                     *)
(*                                                                         *)
(* A definition Mut<Name> is <Name> with a mistake one could make in that  *)
(* code; it is used nowhere and tells which property would notice.         *)
(***************************************************************************)
EXTENDS TxModel, SequencesExt

CONSTANTS
  Blocks,       \* the blocks that may be submitted
  NoResult      \* a thread that has not run yet

ASSUME BlocksAssumption == Blocks \subseteq Seq(Tx)

VARIABLES
  block,      \* access_lists
  waveOf,     \* the wave of each transaction, 0 while not in processed
  scan,       \* the transaction the partitioner looks at
  wave,       \* the wave being filled; in the end the number of waves
  db,         \* the caller's WitnessDatabase
  snapshot,   \* db_snapshot, the copy this wave's threads read
  current,    \* the wave being executed
  result,     \* what the threads of the current wave returned
  phase       \* "partition", "start", "run", and the outcomes "ok", "failed"

partition == <<waveOf, scan, wave>>
execution == <<db, snapshot, current, result>>
vars == <<block, partition, execution, phase>>

TxIds == DOMAIN block

Members(w) == {i \in TxIds : waveOf[i] = w}

-----------------------------------------------------------------------------
(* The partitioner                                                         *)

Init ==
  /\ block \in Blocks
  /\ waveOf = [i \in TxIds |-> 0]
  /\ scan = 1
  /\ wave = IF block = <<>> THEN 0 ELSE 1
  /\ db = Genesis
  /\ snapshot = Genesis
  /\ current = 1
  /\ result = [i \in TxIds |-> NoResult]
  /\ phase = "partition"

(* address_conflict || slot_conflict, against the sets the wave has merged *)
MutConflicts(i, w) ==
  \E j \in Members(w) : block[i].writes \cap (block[j].reads \cup block[j].writes) # {}
Conflicts(i, w) ==
  \E j \in Members(w) :
    \/ block[i].writes \cap (block[j].reads \cup block[j].writes) # {}
    \/ block[i].reads \cap block[j].writes # {}

Scanning == phase = "partition" /\ scan \in TxIds

Take ==
  /\ Scanning
  /\ waveOf[scan] = 0
  /\ ~Conflicts(scan, wave)
  /\ waveOf' = [waveOf EXCEPT ![scan] = wave]
  /\ scan' = scan + 1
  /\ UNCHANGED <<block, wave, execution, phase>>

(* Processed already, or kept for a later wave.                            *)
Skip ==
  /\ Scanning
  /\ waveOf[scan] # 0 \/ Conflicts(scan, wave)
  /\ scan' = scan + 1
  /\ UNCHANGED <<block, waveOf, wave, execution, phase>>

AllProcessed == \A i \in TxIds : waveOf[i] # 0

MutNextWave ==
  /\ phase = "partition"
  /\ scan \notin TxIds
  /\ ~AllProcessed
  /\ wave' = wave + 1
  /\ scan' = 0
  /\ UNCHANGED <<block, waveOf, execution, phase>>
NextWave ==
  /\ phase = "partition"
  /\ scan \notin TxIds
  /\ ~AllProcessed
  /\ wave' = wave + 1
  /\ scan' = 1
  /\ UNCHANGED <<block, waveOf, execution, phase>>

Partitioned ==
  /\ phase = "partition"
  /\ scan \notin TxIds
  /\ AllProcessed
  /\ phase' = "start"
  /\ UNCHANGED <<block, partition, execution>>

-----------------------------------------------------------------------------
(* The waves                                                               *)

StartWave ==
  /\ phase = "start"
  /\ current <= wave
  /\ snapshot' = db
  /\ result' = [i \in TxIds |-> NoResult]
  /\ phase' = "run"
  /\ UNCHANGED <<block, partition, db, current>>

(* What the thread of transaction i returns.                               *)
Attempt(i) ==
  LET tx == block[i]
      s  == snapshot[tx.sender]
  IN  [ok     |-> CanExecute(s, tx),
       writes |-> IF CanExecute(s, tx) THEN Effects(tx, i, s, snapshot[tx.recipient]) ELSE <<>>]

Execute(i) ==
  /\ phase = "run"
  /\ waveOf[i] = current
  /\ result[i] = NoResult
  /\ result' = [result EXCEPT ![i] = Attempt(i)]
  /\ UNCHANGED <<block, partition, db, snapshot, current, phase>>

Joined(i) == result[i] # NoResult /\ result[i].ok

(* The first error, in the order of the wave, ends the call; what earlier  *)
(* waves stored stays.                                                     *)
MutWaveFails == FALSE
WaveFails ==
  /\ phase = "run"
  /\ \E i \in Members(current) :
       /\ result[i] # NoResult /\ ~result[i].ok
       /\ \A j \in Members(current) : j < i => Joined(j)
  /\ phase' = "failed"
  /\ UNCHANGED <<block, partition, execution>>

(* Stores the results in the order of the wave: the last one to write an   *)
(* item is the one that stays.                                             *)
MutApply(d) ==
  [x \in Items |->
     LET writers == {i \in Members(current) : Joined(i) /\ x = block[i].sender}
     IN  IF writers = {} THEN d[x] ELSE result[Max(writers)].writes[x]]
Apply(d) ==
  [x \in Items |->
     LET writers == {i \in Members(current) : Joined(i) /\ x \in DOMAIN result[i].writes}
     IN  IF writers = {} THEN d[x] ELSE result[Max(writers)].writes[x]]

WaveDone ==
  /\ phase = "run"
  /\ \A i \in Members(current) : Joined(i)
  /\ db' = Apply(db)
  /\ current' = current + 1
  /\ phase' = "start"
  /\ UNCHANGED <<block, partition, snapshot, result>>

Return ==
  /\ phase = "start"
  /\ current > wave
  /\ phase' = "ok"
  /\ UNCHANGED <<block, partition, execution>>

Done == phase \in {"ok", "failed"}

Main ==
  \/ Take \/ Skip \/ NextWave \/ Partitioned
  \/ StartWave \/ WaveFails \/ WaveDone \/ Return

Next == Main \/ \E i \in TxIds : Execute(i)

Spec == Init /\ [][Next]_vars

(* The operating system runs every thread and the main thread eventually.  *)
FairSpec ==
  /\ Spec
  /\ WF_vars(Main)
  /\ WF_vars(\E i \in TxIds : Execute(i))

-----------------------------------------------------------------------------
(* Properties                                                              *)

(* What a thread may return.                                               *)
Attempts(i) ==
  {a \in [ok : BOOLEAN, writes : {<<>>} \cup [WriteSet(block[i]) -> Value]] :
     a.ok => /\ a.writes \in [WriteSet(block[i]) -> Value]
             /\ \A x \in WriteSet(block[i]) : a.writes[x] \in ValueOf(x)}

(* The shape of the state: there are at most as many waves as transactions *)
(* and a transaction's wave is one the partitioner has opened.             *)
TypeOK ==
  /\ block \in Blocks
  /\ waveOf \in [TxIds -> 0..wave]
  /\ scan \in 1..Len(block) + 1
  /\ wave \in 0..Len(block)
  /\ db \in Database /\ snapshot \in Database
  /\ current \in 1..wave + 1
  /\ DOMAIN result = TxIds
  /\ \A i \in TxIds : result[i] # NoResult => result[i] \in Attempts(i)
  /\ phase \in {"partition", "start", "run", "ok", "failed"}

(* Two transactions of one wave touch nothing in common that either of     *)
(* them declared it writes, however often the list was scanned.            *)
WavesConflictFree ==
  \A i, j \in TxIds :
    i # j /\ waveOf[i] = waveOf[j] /\ waveOf[i] # 0 =>
      block[i].writes \cap (block[j].reads \cup block[j].writes) = {}

(* Not in waves 1 to w.                                                    *)
Left(i, w) == waveOf[i] = 0 \/ waveOf[i] > w

(* A transaction is kept out of a wave only by an earlier one it conflicts *)
(* with: the waves are as full as the scan order allows, none is empty,    *)
(* and so the partitioner ends with at most one wave per transaction.      *)
WavesGreedy ==
  /\ \A i \in TxIds, w \in 1..wave :
       Left(i, w) /\ (w < wave \/ i < scan) =>
         \E j \in Members(w) :
           /\ j < i
           /\ \/ block[i].writes \cap (block[j].reads \cup block[j].writes) # {}
              \/ block[i].reads \cap block[j].writes # {}
  /\ \A w \in 1..wave : w < wave \/ phase # "partition" => Members(w) # {}

(* What the partitioner owes the executor: waves whose transactions can    *)
(* run at once, and no more of them than the conflicts and the order ask.  *)
WavesSound == WavesConflictFree /\ WavesGreedy

(* The access list names the two accounts the transfer touches.            *)
Declared(blk) ==
  \A i \in DOMAIN blk : {blk[i].sender, blk[i].recipient} \subseteq blk[i].writes

Applied == {i \in TxIds : waveOf[i] # 0 /\ waveOf[i] < current}

(* order lists the transactions applied so far, each once, and none before *)
(* one of an earlier wave.                                                 *)
WaveByWave(order) ==
  /\ Applied \subseteq Range(order)
  /\ \A j, k \in DOMAIN order :
       j < k => order[j] # order[k] /\ waveOf[order[j]] <= waveOf[order[k]]

(* Running on snapshots loses nothing when the lists are complete: after   *)
(* each wave, and also when a later wave failed and the call returned, the *)
(* database is the one the transactions applied so far give one after the  *)
(* other, wave by wave and in any order within a wave; and a wave fails    *)
(* only where running one of its transactions after the applied ones fails *)
(* too.                                                                    *)
AppliedWavesAreSerial ==
  Declared(block) =>
    \A n \in 0..Len(block) : \A order \in [1..n -> Applied] :
      WaveByWave(order) =>
        /\ Serial(block, order) = [ok |-> TRUE, db |-> db]
        /\ phase = "failed" =>
             \E i \in Members(current) : ~Serial(block, Append(order, i)).ok

(* The call returns: the partitioner ends and no thread waits for another. *)
CallReturns == <>Done
==============================================================================
