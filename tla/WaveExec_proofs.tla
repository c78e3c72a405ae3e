---------------------------- MODULE WaveExec_proofs ----------------------------
(***************************************************************************)
(* Proofs about WaveExec for every block and every access lists.           *)
(***************************************************************************)
EXTENDS WaveExec, TxModel_proofs

-----------------------------------------------------------------------------
(* The partitioner.  PartInv is the inductive invariant: what the waves    *)
(* closed so far and the one being filled are like.                        *)

PartType ==
  /\ block \in Blocks
  /\ waveOf \in [TxIds -> Nat]
  /\ \A i \in TxIds : waveOf[i] <= wave
  /\ scan \in 1..Len(block) + 1
  /\ wave \in 0..Len(block)
  /\ phase \in {"partition", "start", "run", "ok", "failed"}

ConflictsIn(i, j) ==
  \/ block[i].writes \cap (block[j].reads \cup block[j].writes) # {}
  \/ block[i].reads \cap block[j].writes # {}

(* i was passed over in wave w because of an earlier member of w.          *)
PassedOver(i, w) == \E j \in TxIds : j < i /\ waveOf[j] = w /\ ConflictsIn(i, j)

Greedy ==
  \A i \in TxIds, w \in 1..wave :
    Left(i, w) /\ (w < wave \/ i < scan) => PassedOver(i, w)

(* Each wave takes at least the first transaction left, so transaction i   *)
(* is in a wave closed before wave i + 1.                                  *)
Early ==
  \A i \in TxIds : i < wave => waveOf[i] # 0 /\ waveOf[i] < wave

(* A wave is opened only for a transaction that still has none.            *)
Fillable ==
  /\ \A w \in 1..wave : w < wave \/ phase # "partition" => \E i \in TxIds : waveOf[i] = w
  /\ phase = "partition" /\ TxIds # {} => \E i \in TxIds : waveOf[i] = 0 \/ waveOf[i] = wave
  /\ TxIds # {} => wave # 0
  /\ phase # "partition" => scan \notin TxIds /\ AllProcessed

(* The wave being filled holds only what this scan went past.              *)
Scanned == phase = "partition" => \A i \in TxIds : waveOf[i] = wave => i < scan

PartInv == PartType /\ WavesConflictFree /\ Greedy /\ Early /\ Fillable /\ Scanned

(* The transactions of a block by their places.                            *)
LEMMA BlockShape ==
  ASSUME block \in Blocks
  PROVE  /\ Len(block) \in Nat
         /\ TxIds = 1..Len(block)
         /\ \A i \in TxIds : block[i] \in Tx
BY BlocksAssumption DEF TxIds

(* The partition at first.                                                 *)
LEMMA PartInit == Init => PartInv
<1> SUFFICES ASSUME Init PROVE PartInv
  OBVIOUS
<1>1. /\ Len(block) \in Nat /\ TxIds = 1..Len(block)
      /\ block = <<>> <=> Len(block) = 0
  BY BlockShape, BlocksAssumption DEF Init
<1>2. PartType
  BY <1>1 DEF Init, PartType
<1>3. WavesConflictFree /\ Greedy /\ Early
  BY <1>1 DEF Init, WavesConflictFree, Greedy, Early
<1>4. Fillable /\ Scanned
  BY <1>1 DEF Init, Fillable, Scanned
<1> QED BY <1>2, <1>3, <1>4 DEF PartInv

(* A transaction enters the wave being filled.                             *)
LEMMA PartTake == PartInv /\ Take => PartInv'
<1> SUFFICES ASSUME PartInv, Take PROVE PartInv'
  OBVIOUS
<1> USE DEF TxIds, PartInv
<1>1. /\ Len(block) \in Nat /\ TxIds = 1..Len(block) /\ block' = block /\ wave' = wave
      /\ phase' = "partition" /\ phase = "partition" /\ TxIds' = TxIds
      /\ scan \in TxIds /\ waveOf[scan] = 0 /\ scan' = scan + 1
  BY BlockShape DEF Take, Scanning, PartType
<1>2. /\ waveOf'[scan] = wave
      /\ \A i \in TxIds : i # scan => waveOf'[i] = waveOf[i]
  BY <1>1 DEF Take, PartType
<1>3. \A j \in TxIds : waveOf[j] = wave => ~ConflictsIn(scan, j)
  BY DEF Take, Conflicts, ConflictsIn, Members
<1>4. PartType'
  BY <1>1, <1>2 DEF PartType, Take
<1>5. WavesConflictFree'
  <2> SUFFICES ASSUME NEW i \in TxIds, NEW j \in TxIds,
                      i # j, waveOf'[i] = waveOf'[j], waveOf'[i] # 0
               PROVE  block[i].writes \cap (block[j].reads \cup block[j].writes) = {}
    BY <1>1 DEF WavesConflictFree
  <2>1. CASE i = scan
    BY <1>2, <1>3, <2>1 DEF ConflictsIn
  <2>2. CASE j = scan
    BY <1>2, <1>3, <2>2 DEF ConflictsIn
  <2>3. CASE i # scan /\ j # scan
    BY <1>2, <2>3 DEF WavesConflictFree
  <2> QED BY <2>1, <2>2, <2>3
<1>6. Greedy'
  <2> SUFFICES ASSUME NEW i \in TxIds, NEW w \in 1..wave,
                      Left(i, w)', w < wave \/ i < scan + 1
               PROVE  PassedOver(i, w)'
    BY <1>1 DEF Greedy
  <2>1. i # scan \/ w < wave
    BY <1>1, <1>2 DEF Left, PartType
  <2>2. Left(i, w)
    BY <1>1, <1>2 DEF Left
  <2>3. w < wave \/ i < scan
    BY <1>1, <2>1 DEF PartType
  <2>4. PICK j \in TxIds : j < i /\ waveOf[j] = w /\ ConflictsIn(i, j)
    BY <2>2, <2>3 DEF Greedy, PassedOver
  <2>5. j # scan
    BY <1>1, <2>4
  <2> QED BY <1>1, <1>2, <2>4, <2>5 DEF PassedOver, ConflictsIn
<1>7. Early'
  BY <1>1, <1>2 DEF Early
<1>8. Fillable' /\ Scanned'
  BY <1>1, <1>2 DEF Fillable, Scanned
<1> QED BY <1>4, <1>5, <1>6, <1>7, <1>8

(* A transaction already placed, or one that conflicts with the wave.      *)
LEMMA PartSkip == PartInv /\ Skip => PartInv'
<1> SUFFICES ASSUME PartInv, Skip PROVE PartInv'
  OBVIOUS
<1> USE DEF TxIds, PartInv
<1>1. /\ Len(block) \in Nat /\ TxIds = 1..Len(block)
      /\ UNCHANGED <<block, waveOf, wave, phase>>
      /\ phase = "partition" /\ scan \in TxIds /\ scan' = scan + 1
  BY BlockShape DEF Skip, Scanning, PartType, execution
<1>2. PartType'
  BY <1>1 DEF PartType
<1>3. WavesConflictFree' /\ Early'
  BY <1>1 DEF WavesConflictFree, Early
<1>4. Greedy'
  <2> SUFFICES ASSUME NEW i \in TxIds, NEW w \in 1..wave,
                      Left(i, w), w < wave \/ i < scan + 1
               PROVE  PassedOver(i, w)
    BY <1>1 DEF Greedy, Left, PassedOver, ConflictsIn
  <2>1. CASE w < wave \/ i < scan
    BY <2>1 DEF Greedy
  <2>2. CASE i = scan /\ w = wave
    <3>1. waveOf[scan] = 0
      BY <1>1, <2>2 DEF Left, PartType
    <3>2. PICK j \in Members(wave) : ConflictsIn(scan, j)
      BY <3>1 DEF Skip, Conflicts, ConflictsIn
    <3>3. j \in TxIds /\ waveOf[j] = wave
      BY DEF Members
    <3>4. j < scan
      BY <1>1, <3>3 DEF Scanned
    <3> QED BY <2>2, <3>2, <3>3, <3>4 DEF PassedOver
  <2> QED BY <1>1, <2>1, <2>2 DEF PartType
<1>5. Fillable' /\ Scanned'
  BY <1>1 DEF Fillable, Scanned, PartType
<1> QED BY <1>2, <1>3, <1>4, <1>5

(* A scan ended with a transaction left: by Early and Greedy the one       *)
(* numbered like the wave is not it.                                       *)
LEMMA PartNextWave == PartInv /\ NextWave => PartInv'
<1> SUFFICES ASSUME PartInv, NextWave PROVE PartInv'
  OBVIOUS
<1> USE DEF TxIds, PartInv
<1>1. /\ Len(block) \in Nat /\ TxIds = 1..Len(block)
      /\ UNCHANGED <<block, waveOf, phase>>
      /\ phase = "partition" /\ scan = Len(block) + 1 /\ scan' = 1 /\ wave' = wave + 1
      /\ wave \in Nat
  BY BlockShape DEF NextWave, PartType, execution
<1>2. PICK k \in TxIds : waveOf[k] = 0
  BY DEF NextWave, AllProcessed
<1>3. wave # 0
  BY <1>2 DEF Fillable
<1>4. ASSUME NEW i \in TxIds, waveOf[i] = 0
      PROVE  PassedOver(i, wave)
  BY <1>1, <1>3, <1>4 DEF Greedy, Left
<1>5. ASSUME NEW i \in TxIds, i <= wave
      PROVE  waveOf[i] # 0
  <2>1. CASE i < wave
    BY <2>1 DEF Early
  <2>2. CASE i = wave
    <3> SUFFICES ASSUME waveOf[i] = 0 PROVE FALSE
      OBVIOUS
    <3>1. PICK j \in TxIds : j < i /\ waveOf[j] = wave
      BY <1>4 DEF PassedOver
    <3> QED BY <1>1, <2>2, <3>1 DEF Early
  <2> QED BY <1>1, <1>5, <2>1, <2>2
<1>6. PartType'
  <2>1. wave + 1 <= Len(block)
    BY <1>1, <1>2, <1>5
  <2> QED BY <1>1, <2>1 DEF PartType
<1>7. WavesConflictFree'
  BY <1>1 DEF WavesConflictFree
<1>8. Greedy'
  <2> SUFFICES ASSUME NEW i \in TxIds, NEW w \in 1..wave + 1,
                      Left(i, w), w < wave + 1 \/ i < 1
               PROVE  PassedOver(i, w)
    <3>1. \A i, w : Left(i, w)' = Left(i, w) /\ PassedOver(i, w)' = PassedOver(i, w)
      BY <1>1 DEF Left, PassedOver, ConflictsIn
    <3>2. TxIds' = TxIds
      BY <1>1
    <3> QED BY <1>1, <3>1, <3>2 DEF Greedy
  <2>1. CASE w < wave
    BY <1>1, <2>1 DEF Greedy
  <2>2. CASE w = wave
    BY <1>1, <1>4, <2>2 DEF Left, PartType
  <2> QED BY <1>1, <2>1, <2>2
<1>9. Early'
  BY <1>1, <1>5 DEF Early, PartType
<1>10. Fillable' /\ Scanned'
  <2>1. \E i \in TxIds : waveOf[i] = wave
    BY <1>2, <1>4 DEF PassedOver
  <2> QED BY <1>1, <1>2, <2>1 DEF Fillable, Scanned, PartType
<1> QED BY <1>6, <1>7, <1>8, <1>9, <1>10

(* The end of the partition.                                               *)
LEMMA PartDone == PartInv /\ Partitioned => PartInv'
<1> SUFFICES ASSUME PartInv, Partitioned PROVE PartInv'
  OBVIOUS
<1> USE DEF TxIds, PartInv
<1>1. /\ Len(block) \in Nat /\ TxIds = 1..Len(block)
      /\ UNCHANGED <<block, waveOf, scan, wave>>
      /\ phase = "partition" /\ phase' = "start" /\ scan \notin TxIds
      /\ \A i \in TxIds : waveOf[i] # 0
  BY BlockShape DEF Partitioned, PartType, partition, AllProcessed
<1>2. PartType' /\ WavesConflictFree' /\ Early' /\ Scanned'
  BY <1>1 DEF PartType, WavesConflictFree, Early, Scanned
<1>3. Greedy'
  BY <1>1 DEF Greedy, Left, PassedOver, ConflictsIn
<1>4. Fillable'
  BY <1>1 DEF Fillable, AllProcessed, PartType
<1> QED BY <1>2, <1>3, <1>4

(* The executing phases leave the waves alone.                             *)
LEMMA PartKept ==
  ASSUME PartInv, UNCHANGED <<block, partition>>,
         phase # "partition" \/ phase' = phase,
         phase' \in {"start", "run", "ok", "failed"} \/ phase' = phase
  PROVE  PartInv'
<1> USE DEF TxIds, PartInv, partition
<1>1. PartType' /\ WavesConflictFree' /\ Early' /\ Scanned'
  BY DEF PartType, WavesConflictFree, Early, Scanned
<1>2. Greedy'
  BY DEF Greedy, Left, PassedOver, ConflictsIn
<1>3. Fillable'
  BY DEF Fillable, AllProcessed
<1> QED BY <1>1, <1>2, <1>3

(* The invariant of the partition, always.                                 *)
LEMMA PartInvariant == Spec => []PartInv
<1>1. PartInv /\ [Next]_vars => PartInv'
  <2> SUFFICES ASSUME PartInv, [Next]_vars PROVE PartInv'
    OBVIOUS
  <2>1. CASE Take \/ Skip \/ NextWave \/ Partitioned
    BY <2>1, PartTake, PartSkip, PartNextWave, PartDone
  <2>2. CASE StartWave \/ WaveFails \/ WaveDone \/ Return
    BY <2>2, PartKept DEF StartWave, WaveFails, WaveDone, Return
  <2>3. CASE \E i \in TxIds : Execute(i)
    BY <2>3, PartKept DEF Execute
  <2>4. CASE UNCHANGED vars
    BY <2>4, PartKept DEF vars
  <2> QED BY <2>1, <2>2, <2>3, <2>4 DEF Next, Main
<1> QED BY <1>1, PartInit, PTL DEF Spec

(* No wave ever holds two transactions of which one declared that it       *)
(* writes what the other declared, whatever the block.                     *)
THEOREM ConflictFree == Spec => []WavesConflictFree
BY PartInvariant, PTL DEF PartInv

(* A transaction waits for a later wave only because of an earlier one it  *)
(* conflicts with, and no wave is empty.                                   *)
THEOREM GreedyWaves == Spec => []WavesGreedy
<1>1. PartInv => WavesGreedy
  BY DEF PartInv, Greedy, PassedOver, ConflictsIn, Fillable, WavesGreedy, Members
<1> QED BY <1>1, PartInvariant, PTL

(* Both together, what the run checks.                                     *)
THEOREM SoundWaves == Spec => []WavesSound
<1>1. WavesConflictFree /\ WavesGreedy => WavesSound
  BY DEF WavesSound
<1> QED BY <1>1, ConflictFree, GreedyWaves, PTL

-----------------------------------------------------------------------------
(* The executor.  ExecType is the shape of what it keeps, Fresh says what  *)
(* it rests on: the threads of a wave, and a wave that failed, have a copy *)
(* of the database as it is.                                               *)

ExecType ==
  /\ db \in Database /\ snapshot \in Database
  /\ current \in 1..wave + 1
  /\ phase = "partition" => current = 1 /\ db = Genesis
  /\ phase \in {"run", "failed"} => current <= wave
  /\ DOMAIN result = TxIds
  /\ \A i \in TxIds : result[i] # NoResult => result[i] \in Attempts(i)

Fresh ==
  phase \in {"run", "failed"} =>
    /\ snapshot = db
    /\ \A i \in Members(current) : result[i] # NoResult => result[i] = Attempt(i)

(* What running a transaction on the snapshot gives.                       *)
LEMMA AttemptType ==
  ASSUME block \in Blocks, snapshot \in Database, NEW i \in TxIds
  PROVE  Attempt(i) \in Attempts(i)
<1> DEFINE tx == block[i]
           s  == snapshot[tx.sender]
           r  == snapshot[tx.recipient]
<1>1. tx \in Tx /\ i \in Nat
  BY BlockShape
<1>2. tx.sender \in Addrs /\ tx.recipient \in Addrs
  BY <1>1 DEF Tx
<1>3. s \in Account /\ r \in Account
  BY <1>2 DEF Database, ValueOf, Items
<1>4. CASE CanExecute(s, tx)
  <2>1. /\ Effects(tx, i, s, r) \in [WriteSet(tx) -> Value]
        /\ \A x \in WriteSet(tx) : Effects(tx, i, s, r)[x] \in ValueOf(x)
    <3> HIDE DEF tx, s, r
    <3> QED BY <1>1, <1>3, <1>4, EffectsType
  <2> QED BY <1>4, <2>1 DEF Attempt, Attempts
<1>5. CASE ~CanExecute(s, tx)
  <2>1. Attempt(i) = [ok |-> FALSE, writes |-> <<>>]
    <3>1. CanExecute(s, tx) = FALSE
      BY <1>5 DEF CanExecute
    <3> QED BY <3>1 DEF Attempt
  <2> QED BY <2>1 DEF Attempts
<1> QED BY <1>4, <1>5

(* The last transaction of the wave to write an item.                      *)
Writing(x) == {i \in Members(current) : Joined(i) /\ x \in DOMAIN result[i].writes}

(* The last of a wave's transactions to write an item is one of them.      *)
LEMMA LastWriting ==
  ASSUME block \in Blocks, NEW x, Writing(x) # {}
  PROVE  Max(Writing(x)) \in Writing(x)
<1>1. Len(block) \in Nat /\ Writing(x) \subseteq 0..Len(block)
  BY BlockShape DEF Writing, Members
<1>2. \E m \in Writing(x) : \A k \in Writing(x) : k <= m
  BY <1>1, GreatestExists
<1>3. \E m \in Writing(x) : \A k \in Writing(x) : m >= k
  BY <1>1, <1>2
<1> QED BY <1>3 DEF Max

(* What applying a wave makes of each item.                                *)
LEMMA ApplyShape ==
  Apply(db) = [x \in Items |-> IF Writing(x) = {} THEN db[x] ELSE result[Max(Writing(x))].writes[x]]
BY DEF Apply, Writing

(* Applying a wave gives a database.                                       *)
LEMMA ApplyType ==
  ASSUME block \in Blocks, ExecType
  PROVE  Apply(db) \in Database
<1>1. ASSUME NEW x \in Items
      PROVE  Apply(db)[x] \in ValueOf(x)
  <2>1. CASE Writing(x) = {}
    BY <2>1, ApplyShape DEF ExecType, Database
  <2>2. CASE Writing(x) # {}
    <3> DEFINE i == Max(Writing(x))
    <3>1. i \in Writing(x)
      BY <2>2, LastWriting
    <3>2. result[i] \in Attempts(i) /\ result[i].ok /\ x \in DOMAIN result[i].writes
      BY <3>1 DEF Writing, Members, Joined, ExecType
    <3>3. result[i].writes[x] \in ValueOf(x)
      <4> HIDE DEF i
      <4> QED BY <3>2 DEF Attempts
    <3> QED BY <2>2, <3>3, ApplyShape
  <2> QED BY <2>1, <2>2
<1>2. \A x : ValueOf(x) \subseteq Value
  BY DEF ValueOf, Value
<1> QED BY <1>1, <1>2, ApplyShape DEF Database

ExecInv == ExecType /\ Fresh

(* The invariant of the execution, always.                                 *)
LEMMA ExecInvariant == Spec => []ExecInv
<1>1. Init => ExecInv
  BY GenesisAssumption DEF Init, ExecInv, ExecType, Fresh, TxIds
<1>2. PartInv /\ ExecInv /\ [Next]_vars => ExecInv'
  <2> SUFFICES ASSUME PartInv, ExecInv, [Next]_vars
               PROVE  ExecInv'
    OBVIOUS
  <2>0. block \in Blocks /\ wave \in Nat /\ ExecType /\ Fresh
    BY BlockShape DEF PartInv, PartType, ExecInv
  <2>1. ASSUME phase = "partition", phase' \in {"partition", "start"},
               wave' \in Nat, wave <= wave', UNCHANGED <<block, execution>>
        PROVE  ExecInv'
    <3>1. UNCHANGED <<block, db, snapshot, current, result>>
      BY <2>1 DEF execution
    <3>2. current = 1 /\ db = Genesis
      BY <2>0, <2>1 DEF ExecType
    <3>3. current' \in 1..wave' + 1
      <4>1. current' = 1
        BY <3>1, <3>2
      <4>2. PICK w \in Nat : w = wave'
        BY <2>1
      <4>3. 1 \in 1..w + 1
        OBVIOUS
      <4> QED BY <4>1, <4>2, <4>3
    <3>4. ExecType'
      BY <2>0, <2>1, <3>1, <3>2, <3>3 DEF ExecType, TxIds, Attempts
    <3>5. Fresh'
      BY <2>1 DEF Fresh
    <3> QED BY <3>4, <3>5 DEF ExecInv
  <2>2. CASE Take \/ Skip \/ NextWave \/ Partitioned
    <3>1. /\ phase = "partition" /\ phase' \in {"partition", "start"}
          /\ UNCHANGED <<block, execution>>
      BY <2>2 DEF Take, Skip, NextWave, Partitioned, Scanning
    <3>2. wave' \in Nat /\ wave <= wave'
      BY <2>0, <2>2 DEF Take, Skip, NextWave, Partitioned, partition
    <3> QED BY <2>1, <3>1, <3>2
  <2>3. CASE StartWave
    <3>1. ExecType'
      BY <2>0, <2>3 DEF StartWave, ExecType, partition, TxIds, Attempts
    <3>2. Fresh'
      BY <2>0, <2>3 DEF StartWave, Fresh, Members, TxIds, partition
    <3> QED BY <3>1, <3>2 DEF ExecInv
  <2>4. ASSUME NEW i \in TxIds, Execute(i)
        PROVE  ExecInv'
    <3>1. /\ UNCHANGED <<block, partition, db, snapshot, current, phase>> /\ phase = "run"
          /\ result' = [result EXCEPT ![i] = Attempt(i)]
      BY <2>4 DEF Execute
    <3>2. Attempt(i) \in Attempts(i)
      BY <2>0, AttemptType DEF ExecType
    <3>3. \A j \in TxIds : result'[j] = IF j = i THEN Attempt(i) ELSE result[j]
      BY <2>0, <3>1 DEF ExecType
    <3>4. ExecType'
      BY <2>0, <3>1, <3>2, <3>3 DEF ExecType, partition, TxIds, Attempts
    <3>5. \A j : Attempt(j)' = Attempt(j) /\ (j \in Members(current))' = (j \in Members(current))
      BY <3>1 DEF Attempt, Members, TxIds, partition
    <3>6. Fresh'
      BY <2>0, <3>1, <3>3, <3>5 DEF Fresh, Members
    <3> QED BY <3>4, <3>6 DEF ExecInv
  <2>5. CASE WaveFails
    BY <2>0, <2>5 DEF WaveFails, ExecInv, ExecType, Fresh, execution, partition, TxIds, Attempts,
                      Attempt, Members
  <2>6. CASE WaveDone
    <3>1. Apply(db) \in Database
      BY <2>0, ApplyType
    <3> QED BY <2>0, <2>6, <3>1
            DEF WaveDone, ExecInv, ExecType, Fresh, partition, TxIds, Attempts
  <2>7. CASE Return
    BY <2>0, <2>7 DEF Return, ExecInv, ExecType, Fresh, execution, partition, TxIds, Attempts
  <2>8. CASE UNCHANGED vars
    BY <2>0, <2>8 DEF vars, ExecInv, ExecType, Fresh, execution, partition, TxIds, Attempts,
                      Attempt, Members
  <2> QED BY <2>2, <2>3, <2>4, <2>5, <2>6, <2>7, <2>8 DEF Next, Main
<1> QED BY <1>1, <1>2, PartInvariant, PTL DEF Spec

(* The executor's state keeps its shape: there are never more waves than   *)
(* transactions, and what is stored in the database is well formed.        *)
THEOREM TypeCorrect == Spec => []TypeOK
<1>1. PartInv /\ ExecInv => TypeOK
  <2> SUFFICES ASSUME PartInv, ExecInv PROVE TypeOK
    OBVIOUS
  <2>1. waveOf \in [TxIds -> 0..wave]
    BY DEF PartInv, PartType
  <2> QED BY <2>1 DEF PartInv, PartType, ExecInv, ExecType, TypeOK
<1> QED BY <1>1, PartInvariant, ExecInvariant, PTL

-----------------------------------------------------------------------------
(* Serial results.  The argument goes from one finished wave to the next:  *)
(* a listing of the applied transactions is one of those applied before,   *)
(* followed by the members of the wave, and these write apart.             *)

AppliedBelow(c) == {i \in TxIds : waveOf[i] # 0 /\ waveOf[i] < c}

ListsBelow(c, order) ==
  /\ AppliedBelow(c) \subseteq Range(order)
  /\ \A j, k \in DOMAIN order :
       j < k => order[j] # order[k] /\ waveOf[order[j]] <= waveOf[order[k]]

SerialBelow(c, d) ==
  \A n \in 0..Len(block) : \A order \in [1..n -> AppliedBelow(c)] :
    ListsBelow(c, order) => Serial(block, order) = [ok |-> TRUE, db |-> d]

(* An order is a sequence.                                                 *)
LEMMA OrderShape ==
  ASSUME NEW S, NEW n \in Nat, NEW order \in [1..n -> S]
  PROVE  Len(order) = n /\ order \in Seq(S) /\ DOMAIN order = 1..n
OBVIOUS

(* A complete list names all that a transaction writes.                    *)
LEMMA WritesDeclared ==
  ASSUME block \in Blocks, Declared(block), NEW i \in TxIds
  PROVE  WriteSet(block[i]) \subseteq block[i].writes
BY BlockShape DEF Declared, WriteSet, TxIds

(* So the members of a wave write apart.                                   *)
LEMMA WriteApart ==
  ASSUME PartInv, Declared(block), NEW i \in TxIds, NEW j \in TxIds,
         i # j, waveOf[i] = waveOf[j], waveOf[i] # 0
  PROVE  WriteSet(block[i]) \cap WriteSet(block[j]) = {}
<1>1. WriteSet(block[i]) \subseteq block[i].writes /\ WriteSet(block[j]) \subseteq block[j].writes
  BY WritesDeclared DEF PartInv, PartType
<1>2. block[i].writes \cap (block[j].reads \cup block[j].writes) = {}
  BY DEF PartInv, WavesConflictFree
<1> QED BY <1>1, <1>2

(* The members of a wave, one after the other from the snapshot on.        *)
LEMMA WaveRun ==
  ASSUME PartInv, ExecInv, Declared(block), phase = "run",
         \A i \in Members(current) : Joined(i),
         NEW n \in 0..Len(block), NEW p \in 0..n, NEW order \in [1..n -> TxIds],
         \A j \in p + 1..n : order[j] \in Members(current),
         \A j, k \in 1..n : j < k => order[j] # order[k],
         SerialRun(block, order)[p] = [ok |-> TRUE, db |-> db],
         NEW m \in p..n
  PROVE  LET after == SerialRun(block, order)[m]
         IN  /\ after = [ok |-> TRUE, db |-> [x \in Items |-> after.db[x]]]
             /\ \A x \in Items :
                  /\ (\A j \in p + 1..m : x \notin WriteSet(block[order[j]])) => after.db[x] = db[x]
                  /\ \A j \in p + 1..m :
                       x \in WriteSet(block[order[j]]) => after.db[x] = result[order[j]].writes[x]
<1> DEFINE run == SerialRun(block, order)
           Good(k) ==
             /\ run[k] = [ok |-> TRUE, db |-> [x \in Items |-> run[k].db[x]]]
             /\ \A x \in Items :
                  /\ (\A j \in p + 1..k : x \notin WriteSet(block[order[j]])) => run[k].db[x] = db[x]
                  /\ \A j \in p + 1..k :
                       x \in WriteSet(block[order[j]]) => run[k].db[x] = result[order[j]].writes[x]
           S == {k \in p..n : ~Good(k)}
<1>0. /\ Len(block) \in Nat /\ TxIds = 1..Len(block) /\ block \in Blocks
      /\ n \in Nat /\ p \in Nat /\ Len(order) = n
      /\ db \in Database /\ snapshot = db
  <2>1. block \in Blocks
    BY DEF PartInv, PartType
  <2>2. Len(block) \in Nat /\ TxIds = 1..Len(block)
    BY <2>1, BlockShape
  <2> QED BY <2>1, <2>2, OrderShape DEF ExecInv, ExecType, Fresh
<1>1. \A k \in 1..n : run[k] = SerialStep(run[k - 1], block[order[k]], order[k])
  <2>1. Len(order) \in Nat
    BY <1>0
  <2>2. \A k \in 1..Len(order) : run[k] = SerialStep(run[k - 1], block[order[k]], order[k])
    BY <2>1, SerialRunDef
  <2> QED BY <1>0, <2>2
<1>2. run[p] = [ok |-> TRUE, db |-> db]
  OBVIOUS
<1> HIDE DEF run
<1> SUFFICES Good(m)
  BY DEF run
<1> HIDE DEF Good
<1> SUFFICES ASSUME S # {} PROVE FALSE
  OBVIOUS
<1>3. PICK k \in S : \A l \in S : k <= l
  <2>1. S \subseteq Nat
    BY <1>0
  <2> HIDE DEF S
  <2> QED BY <2>1, LeastExists
<1>4. CASE k = p
  <2>1. db = [x \in Items |-> db[x]]
    BY <1>0 DEF Database
  <2>2. Good(p)
    <3>1. p + 1..p = {}
      BY <1>0
    <3>2. run[p].db = db /\ run[p] = [ok |-> TRUE, db |-> [x \in Items |-> run[p].db[x]]]
      <4>1. run[p].db = db
        BY <1>2
      <4>2. [x \in Items |-> run[p].db[x]] = db
        BY <2>1, <4>1
      <4> QED BY <1>2, <4>1, <4>2
    <3> QED BY <3>1, <3>2 DEF Good
  <2> QED BY <1>3, <1>4, <2>2
<1>5. CASE k # p
  <2> DEFINE i  == order[k]
             tx == block[i]
             before == run[k - 1]
  <2>1. k \in p + 1..n /\ k \in 1..n /\ k - 1 \in p..n /\ Good(k - 1)
    BY <1>0, <1>3, <1>5
  <2>2. i \in TxIds /\ i \in Members(current) /\ Joined(i) /\ waveOf[i] = current /\ waveOf[i] # 0
    BY <2>1 DEF Members, ExecInv, ExecType
  <2>3. tx \in Tx
    BY <1>0, <2>2, BlockShape
  <2>4. tx.sender \in Items /\ tx.recipient \in Items
        /\ tx.sender \in WriteSet(tx) /\ tx.recipient \in WriteSet(tx)
    BY <2>3, WriteSetType
  <2>5. ASSUME NEW j \in p + 1..k - 1
        PROVE  WriteSet(block[order[j]]) \cap WriteSet(tx) = {}
    <3>1. order[j] \in TxIds /\ order[j] \in Members(current) /\ order[j] # i
      BY <1>0, <2>1
    <3>2. waveOf[order[j]] = waveOf[i]
      BY <2>2, <3>1 DEF Members
    <3> HIDE DEF i
    <3>3. WriteSet(block[order[j]]) \cap WriteSet(block[i]) = {}
      BY <2>2, <3>1, <3>2, WriteApart
    <3> QED BY <3>3
  <2>6. before.db[tx.sender] = db[tx.sender] /\ before.db[tx.recipient] = db[tx.recipient]
        /\ before = [ok |-> TRUE, db |-> [x \in Items |-> before.db[x]]]
    <3>1. \A j \in p + 1..k - 1 : tx.sender \notin WriteSet(block[order[j]])
                                 /\ tx.recipient \notin WriteSet(block[order[j]])
      BY <2>4, <2>5
    <3> HIDE DEF tx, i
    <3> QED BY <2>1, <2>4, <3>1 DEF Good
  <2>7. result[i] = Attempt(i) /\ result[i].ok
    BY <2>2 DEF ExecInv, Fresh, Joined
  <2>8. CanExecute(db[tx.sender], tx)
        /\ result[i].writes = Effects(tx, i, db[tx.sender], db[tx.recipient])
    BY <1>0, <2>7 DEF Attempt
  <2>9. before.ok = TRUE /\ run[k] = SerialStep(before, tx, i)
    BY <1>1, <2>1, <2>6
  <2>10. run[k] = [ok |-> TRUE, db |-> Overlay(before.db, result[i].writes)]
    <3> HIDE DEF before, tx, i
    <3> QED BY <2>6, <2>8, <2>9 DEF SerialStep
  <2>11. DOMAIN result[i].writes = WriteSet(tx)
    BY <2>8 DEF Effects
  <2>12. ASSUME NEW x \in Items
         PROVE  run[k].db[x] = IF x \in WriteSet(tx) THEN result[i].writes[x] ELSE before.db[x]
    <3> HIDE DEF before, tx, i
    <3> QED BY <2>10, <2>11 DEF Overlay
  <2>13. run[k] = [ok |-> TRUE, db |-> [x \in Items |-> run[k].db[x]]]
    <3> HIDE DEF before, tx, i
    <3>1. run[k].db = Overlay(before.db, result[i].writes)
      BY <2>10
    <3>2. Overlay(before.db, result[i].writes) = [x \in Items |-> Overlay(before.db, result[i].writes)[x]]
      BY DEF Overlay
    <3> QED BY <2>10, <3>1, <3>2
  <2>14. ASSUME NEW x \in Items
         PROVE  /\ (\A j \in p + 1..k : x \notin WriteSet(block[order[j]])) => run[k].db[x] = db[x]
                /\ \A j \in p + 1..k :
                     x \in WriteSet(block[order[j]]) => run[k].db[x] = result[order[j]].writes[x]
    <3>1. p + 1..k = (p + 1..k - 1) \cup {k}
      BY <1>0, <2>1
    <3>2. /\ (\A j \in p + 1..k - 1 : x \notin WriteSet(block[order[j]])) => before.db[x] = db[x]
          /\ \A j \in p + 1..k - 1 :
               x \in WriteSet(block[order[j]]) => before.db[x] = result[order[j]].writes[x]
      BY <2>1 DEF Good
    <3> HIDE DEF before
    <3>3. CASE x \in WriteSet(tx)
      <4>1. \A j \in p + 1..k - 1 : x \notin WriteSet(block[order[j]])
        BY <2>5, <3>3
      <4> QED BY <2>1, <2>12, <3>1, <3>3, <4>1
    <3>4. CASE x \notin WriteSet(tx)
      BY <2>1, <2>12, <3>1, <3>2, <3>4
    <3> QED BY <3>3, <3>4
  <2>15. Good(k)
    BY <2>13, <2>14 DEF Good
  <2> QED BY <1>3, <2>15
<1> QED BY <1>4, <1>5

(* A finished wave: what is stored is what its members give in any order.  *)
LEMMA WaveIsSerial ==
  ASSUME PartInv, ExecInv, Declared(block), phase = "run",
         \A i \in Members(current) : Joined(i),
         SerialBelow(current, db)
  PROVE  SerialBelow(current + 1, Apply(db))
<1> DEFINE D == AppliedBelow(current)
           M == Members(current)
<1>0. /\ Len(block) \in Nat /\ TxIds = 1..Len(block) /\ block \in Blocks
      /\ current \in Nat /\ current # 0 /\ waveOf \in [TxIds -> Nat]
      /\ AppliedBelow(current + 1) = D \cup M /\ D \cap M = {}
      /\ D \subseteq TxIds /\ M \subseteq TxIds
  <2>1. block \in Blocks /\ wave \in Nat /\ waveOf \in [TxIds -> Nat]
    BY BlockShape DEF PartInv, PartType
  <2>2. Len(block) \in Nat /\ TxIds = 1..Len(block)
    BY <2>1, BlockShape
  <2>3. current \in Nat /\ current # 0
    BY <2>1 DEF ExecInv, ExecType
  <2>4. AppliedBelow(current + 1) = D \cup M /\ D \cap M = {}
    BY <2>1, <2>3 DEF AppliedBelow, Members
  <2> QED BY <2>1, <2>2, <2>3, <2>4 DEF AppliedBelow, Members
<1> SUFFICES ASSUME NEW n \in 0..Len(block), NEW order \in [1..n -> D \cup M],
                    ListsBelow(current + 1, order)
             PROVE  Serial(block, order) = [ok |-> TRUE, db |-> Apply(db)]
  BY <1>0 DEF SerialBelow
<1>1. /\ n \in Nat /\ Len(order) = n /\ DOMAIN order = 1..n
      /\ order \in [1..n -> TxIds]
  BY <1>0, OrderShape
<1>2. /\ D \cup M \subseteq Range(order)
      /\ \A j, k \in 1..n : j < k => order[j] # order[k] /\ waveOf[order[j]] <= waveOf[order[k]]
  BY <1>0, <1>1 DEF ListsBelow
<1> DEFINE S == {k \in 0..n : \A j \in 1..k : order[j] \in D}
<1>3. PICK p \in S : \A k \in S : k <= p
  <2>1. S \subseteq 0..n /\ 0 \in S
    BY <1>1
  <2> HIDE DEF S
  <2> QED BY <1>1, <2>1, GreatestExists
<1>4. p \in 0..n /\ p \in Nat /\ \A j \in 1..p : order[j] \in D
  BY <1>1, <1>3
<1>5. \A j \in p + 1..n : order[j] \in M
  <2> SUFFICES ASSUME NEW j \in p + 1..n, order[j] \in D PROVE FALSE
    BY <1>1, <1>4
  <2>1. p + 1 \in 1..n /\ p + 1 \in 0..n /\ j \in 1..n
    BY <1>1, <1>4
  <2>2. p + 1 \notin S
    <3>1. ~(p + 1 <= p)
      BY <1>4
    <3> HIDE DEF S
    <3> QED BY <1>3, <3>1
  <2>3. order[p + 1] \notin D
    <3>1. PICK k \in 1..p + 1 : order[k] \notin D
      BY <2>1, <2>2
    <3>2. k \in 1..p \/ k = p + 1
      BY <1>4, <3>1
    <3> QED BY <1>4, <3>1, <3>2
  <2>4. waveOf[order[p + 1]] <= waveOf[order[j]]
    BY <1>0, <1>1, <1>2, <2>1
  <2>5. waveOf[order[p + 1]] = current /\ waveOf[order[j]] < current
    BY <1>1, <2>1, <2>3 DEF AppliedBelow, Members
  <2>6. waveOf[order[j]] \in Nat
    BY <1>0, <1>1, <2>1
  <2> QED BY <1>0, <2>4, <2>5, <2>6
<1> DEFINE pre == [k \in 1..p |-> order[k]]
<1>6. /\ pre \in [1..p -> D] /\ Len(pre) = p /\ DOMAIN pre = 1..p /\ p \in 0..Len(block)
      /\ \A k \in 1..p : pre[k] = order[k]
  <2>1. pre \in [1..p -> D]
    BY <1>4
  <2> HIDE DEF pre
  <2> QED BY <1>0, <1>4, <2>1, OrderShape DEF pre
<1> HIDE DEF pre, S
<1>7. ListsBelow(current, pre)
  <2>1. D \subseteq Range(pre)
    <3> SUFFICES ASSUME NEW d \in D PROVE d \in Range(pre)
      OBVIOUS
    <3>1. PICK j \in 1..n : d = order[j]
      BY <1>1, <1>2 DEF Range
    <3>2. j \in 1..p
      BY <1>0, <1>1, <1>4, <1>5, <3>1
    <3> QED BY <1>6, <3>1, <3>2 DEF Range
  <2>2. \A j, k \in 1..p : j < k => pre[j] # pre[k] /\ waveOf[pre[j]] <= waveOf[pre[k]]
    BY <1>1, <1>2, <1>4, <1>6
  <2> QED BY <1>6, <2>1, <2>2 DEF ListsBelow
<1>8. Serial(block, pre) = [ok |-> TRUE, db |-> db]
  BY <1>6, <1>7 DEF SerialBelow
<1>9. SerialRun(block, order)[p] = [ok |-> TRUE, db |-> db]
  <2>1. p \in 0..Len(pre) /\ Len(pre) \in Nat /\ Len(order) \in Nat /\ Len(pre) <= Len(order)
        /\ \A k \in 1..Len(pre) : order[k] = pre[k]
    BY <1>1, <1>4, <1>6
  <2>2. SerialRun(block, order)[p] = SerialRun(block, pre)[p]
    BY <2>1, SerialPrefix
  <2> QED BY <1>6, <1>8, <2>2 DEF Serial
<1> DEFINE after == SerialRun(block, order)[n]
<1>10. /\ after = [ok |-> TRUE, db |-> [x \in Items |-> after.db[x]]]
       /\ \A x \in Items :
            /\ (\A j \in p + 1..n : x \notin WriteSet(block[order[j]])) => after.db[x] = db[x]
            /\ \A j \in p + 1..n :
                 x \in WriteSet(block[order[j]]) => after.db[x] = result[order[j]].writes[x]
  <2>1. n \in p..n /\ \A j, k \in 1..n : j < k => order[j] # order[k]
    BY <1>1, <1>2, <1>4
  <2> QED BY <1>1, <1>4, <1>5, <1>9, <2>1, WaveRun
<1>11. \A i \in M : DOMAIN result[i].writes = WriteSet(block[i])
  BY <1>0 DEF Joined, ExecInv, ExecType, Attempts
<1> HIDE DEF after
<1>12. ASSUME NEW x \in Items
       PROVE  after.db[x] = Apply(db)[x]
  <2>1. Writing(x) = {i \in M : x \in WriteSet(block[i])}
    BY <1>11 DEF Writing
  <2>2. CASE Writing(x) = {}
    <3>1. \A j \in p + 1..n : x \notin WriteSet(block[order[j]])
      BY <1>5, <2>1, <2>2
    <3> QED BY <1>10, <2>2, <3>1, ApplyShape
  <2>3. CASE Writing(x) # {}
    <3> DEFINE i == Max(Writing(x))
    <3>1. i \in M /\ x \in WriteSet(block[i])
      BY <1>0, <2>1, <2>3, LastWriting
    <3>2. Apply(db)[x] = result[i].writes[x]
      BY <2>3, ApplyShape
    <3> HIDE DEF i
    <3>3. PICK j \in 1..n : i = order[j]
      BY <1>1, <1>2, <3>1 DEF Range
    <3>4. j \in p + 1..n
      BY <1>0, <1>1, <1>4, <3>1, <3>3
    <3> QED BY <1>10, <3>1, <3>2, <3>3, <3>4
  <2> QED BY <2>2, <2>3
<1>13. after = [ok |-> TRUE, db |-> Apply(db)]
  <2>1. Apply(db) = [x \in Items |-> Apply(db)[x]]
    BY DEF Apply
  <2>2. [x \in Items |-> after.db[x]] = [x \in Items |-> Apply(db)[x]]
    BY <1>12
  <2> QED BY <1>10, <2>1, <2>2
<1>14. Serial(block, order) = after
  BY <1>1 DEF Serial, after
<1> QED BY <1>13, <1>14

(* Before the first wave nothing is applied.                               *)
LEMMA BeforeWaves ==
  ASSUME PartInv, ExecInv, phase = "partition"
  PROVE  SerialBelow(current, db)
<1>1. current = 1 /\ db = Genesis
  BY DEF ExecInv, ExecType
<1>2. waveOf \in [TxIds -> Nat] /\ Len(block) \in Nat
  BY BlockShape DEF PartInv, PartType
<1>3. AppliedBelow(1) = {}
  BY <1>2 DEF AppliedBelow
<1> SUFFICES ASSUME NEW n \in 0..Len(block), NEW order \in [1..n -> {}]
             PROVE  Serial(block, order) = [ok |-> TRUE, db |-> Genesis]
  BY <1>1, <1>3 DEF SerialBelow
<1>4. n = 0
  BY <1>2
<1>5. Len(order) = 0
  BY <1>4, OrderShape
<1>6. SerialRun(block, order)[0] = Start
  BY <1>5, SerialRunDef
<1> QED BY <1>5, <1>6 DEF Serial, Start

WaveInv ==
  /\ phase # "partition" /\ Declared(block) => SerialBelow(current, db)
  /\ phase = "failed" => \E i \in Members(current) : result[i] # NoResult /\ ~result[i].ok

(* What the applied waves give, always.                                    *)
LEMMA WaveInvariant == Spec => []WaveInv
<1>1. Init => WaveInv
  BY DEF Init, WaveInv
<1>2. PartInv /\ ExecInv /\ WaveInv /\ [Next]_vars => WaveInv'
  <2> SUFFICES ASSUME PartInv, ExecInv, WaveInv, [Next]_vars
               PROVE  WaveInv'
    OBVIOUS
  <2>1. ASSUME UNCHANGED <<block, waveOf>>, NEW c, NEW d, SerialBelow(c, d)
        PROVE  SerialBelow(c, d)'
    BY <2>1 DEF SerialBelow, ListsBelow, AppliedBelow, TxIds
  <2>2. ASSUME UNCHANGED <<block, waveOf>>
        PROVE  Declared(block)' <=> Declared(block)
    BY <2>2 DEF Declared
  <2>3. ASSUME NEW c, NEW d, c = current', d = db', SerialBelow(c, d)'
         PROVE  SerialBelow(current, db)'
    BY <2>3 DEF SerialBelow, ListsBelow, AppliedBelow, TxIds
  <2>4. ASSUME UNCHANGED <<block, waveOf, current, db>>,
               Declared(block) => SerialBelow(current, db)
        PROVE  Declared(block)' => SerialBelow(current, db)'
    <3>1. SerialBelow(current, db) => SerialBelow(current, db)'
      BY <2>1, <2>4, <2>3
    <3> QED BY <2>2, <2>4, <3>1
  <2>5. CASE Take \/ Skip \/ NextWave
    BY <2>5 DEF Take, Skip, NextWave, Scanning, WaveInv
  <2>6. CASE Partitioned
    <3>1. /\ UNCHANGED <<block, waveOf, current, db>> /\ phase = "partition" /\ phase' = "start"
      BY <2>6 DEF Partitioned, partition, execution
    <3>2. SerialBelow(current, db)
      BY <3>1, BeforeWaves
    <3> QED BY <2>4, <3>1, <3>2 DEF WaveInv
  <2>7. CASE StartWave \/ Return \/ \E i \in TxIds : Execute(i)
    <3>1. /\ UNCHANGED <<block, waveOf, current, db>>
          /\ phase # "partition" /\ phase' \in {"start", "run", "ok"}
      BY <2>7 DEF StartWave, Return, Execute, partition, execution
    <3> QED BY <2>4, <3>1 DEF WaveInv
  <2>8. CASE WaveFails
    <3>1. /\ UNCHANGED <<block, waveOf, current, db, result>> /\ phase = "run"
          /\ \E i \in Members(current) : result[i] # NoResult /\ ~result[i].ok
      BY <2>8 DEF WaveFails, partition, execution
    <3>2. Members(current)' = Members(current)
      BY <3>1 DEF Members, TxIds
    <3> QED BY <2>4, <3>1, <3>2 DEF WaveInv
  <2>9. CASE WaveDone
    <3>1. /\ UNCHANGED <<block, waveOf>> /\ phase = "run" /\ phase' = "start"
          /\ current' = current + 1 /\ db' = Apply(db)
          /\ \A i \in Members(current) : Joined(i)
      BY <2>9 DEF WaveDone, partition
    <3>2. Declared(block) => SerialBelow(current + 1, Apply(db))
      BY <3>1, WaveIsSerial DEF WaveInv
    <3>3. Declared(block) => SerialBelow(current, db)'
      BY <2>1, <2>3, <3>1, <3>2
    <3> QED BY <2>2, <3>1, <3>3 DEF WaveInv
  <2>10. CASE UNCHANGED vars
    <3>1. UNCHANGED <<block, waveOf, current, db, result, phase>>
      BY <2>10 DEF vars, partition, execution
    <3>2. Members(current)' = Members(current)
      BY <3>1 DEF Members, TxIds
    <3> QED BY <2>4, <3>1, <3>2 DEF WaveInv
  <2> QED BY <2>5, <2>6, <2>7, <2>8, <2>9, <2>10 DEF Next, Main
<1> QED BY <1>1, <1>2, PartInvariant, ExecInvariant, PTL DEF Spec

(* With complete access lists the database is, after each wave and after a *)
(* failure, the one the applied transactions give in every order that      *)
(* takes wave by wave; and where a wave failed serial execution fails.     *)
THEOREM SerialWaves == Spec => []AppliedWavesAreSerial
<1>1. PartInv /\ ExecInv /\ WaveInv => AppliedWavesAreSerial
  <2> SUFFICES ASSUME PartInv, ExecInv, WaveInv, Declared(block),
                      NEW n \in 0..Len(block), NEW order \in [1..n -> Applied], WaveByWave(order)
               PROVE  /\ Serial(block, order) = [ok |-> TRUE, db |-> db]
                      /\ phase = "failed" =>
                           \E i \in Members(current) : ~Serial(block, Append(order, i)).ok
    BY DEF AppliedWavesAreSerial
  <2>1. /\ Len(block) \in Nat /\ TxIds = 1..Len(block) /\ block \in Blocks /\ n \in Nat
    BY BlockShape DEF PartInv, PartType
  <2>2. Applied = AppliedBelow(current) /\ ListsBelow(current, order)
    BY DEF Applied, AppliedBelow, WaveByWave, ListsBelow
  <2>3. Serial(block, order) = [ok |-> TRUE, db |-> db]
    BY <2>2, BeforeWaves DEF WaveInv, SerialBelow
  <2>4. ASSUME phase = "failed"
        PROVE  \E i \in Members(current) : ~Serial(block, Append(order, i)).ok
    <3>1. PICK i \in Members(current) : result[i] # NoResult /\ ~result[i].ok
      BY <2>4 DEF WaveInv
    <3>2. i \in TxIds
      BY DEF Members
    <3>3. ~CanExecute(db[block[i].sender], block[i])
      <4>1. result[i] = Attempt(i) /\ snapshot = db
        BY <2>4, <3>1 DEF ExecInv, Fresh
      <4>2. Attempt(i).ok = CanExecute(db[block[i].sender], block[i])
        BY <4>1 DEF Attempt
      <4> QED BY <3>1, <4>1, <4>2
    <3> DEFINE longer == Append(order, i)
    <3>4. /\ Len(order) = n /\ Len(longer) = n + 1 /\ longer[n + 1] = i
          /\ \A k \in 1..n : longer[k] = order[k]
      <4>1. order \in [1..n -> TxIds]
        BY DEF Applied
      <4>2. order \in Seq(TxIds) /\ Len(order) = n
        BY <2>1, <4>1, OrderShape
      <4>3. \A q \in Seq(TxIds), j \in TxIds :
              /\ Len(Append(q, j)) = Len(q) + 1 /\ Append(q, j)[Len(q) + 1] = j
              /\ \A k \in 1..Len(q) : Append(q, j)[k] = q[k]
        OBVIOUS
      <4> QED BY <3>2, <4>2, <4>3
    <3> HIDE DEF longer
    <3>5. SerialRun(block, longer)[n] = [ok |-> TRUE, db |-> db]
      <4>1. SerialRun(block, longer)[n] = SerialRun(block, order)[n]
        BY <2>1, <3>4, SerialPrefix
      <4> QED BY <2>3, <3>4, <4>1 DEF Serial
    <3>6. SerialRun(block, longer)[n + 1] = SerialStep(SerialRun(block, longer)[n], block[i], i)
      <4>1. Len(longer) \in Nat /\ n + 1 \in 1..Len(longer) /\ n + 1 - 1 = n
        BY <2>1, <3>4
      <4> QED BY <3>4, <4>1, SerialRunDef
    <3>7. ~Serial(block, longer).ok
      BY <3>3, <3>4, <3>5, <3>6 DEF SerialStep, Serial
    <3> QED BY <3>7 DEF longer
  <2> QED BY <2>3, <2>4
<1> QED BY <1>1, PartInvariant, ExecInvariant, WaveInvariant, PTL
==============================================================================
