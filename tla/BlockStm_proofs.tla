---------------------------- MODULE BlockStm_proofs ----------------------------
(***************************************************************************)
(* Proofs about BlockStm for every block, database and retry budget.       *)
(***************************************************************************)
EXTENDS BlockStm, TxModel_proofs

-----------------------------------------------------------------------------
(* Lemmas about the operators of the model.                                *)

(* A block's transactions are numbered 1 to its length.                    *)
LEMMA BlockShape ==
  ASSUME TypeOK
  PROVE  /\ Len(block) \in Nat
         /\ TxIds = 1..Len(block)
         /\ \A i \in TxIds : block[i] \in Tx
BY BlocksAssumption DEF TypeOK, TxIds

(* What ReadVersion and ReadValue return, for a thread (i a transaction)   *)
(* and for the finalisation (i = Len(block) + 1).                          *)
LEMMA ReadVersionType ==
  ASSUME TypeOK, NEW i \in 1..Len(block) + 1, NEW x \in Items
  PROVE  /\ ReadVersion(i, x) \in 0..i - 1
         /\ ReadVersion(i, x) = Backing <=> Writers(i, x) = {}
         /\ Writers(i, x) # {} => ReadVersion(i, x) \in Writers(i, x)
         /\ ReadValue(i, x) \in ValueOf(x)
<1>1. Writers(i, x) \subseteq 0..i - 1 /\ 0 \notin Writers(i, x)
  BY BlockShape DEF Writers
<1>2. CASE Writers(i, x) = {}
  BY <1>2, GenesisAssumption, BlockShape DEF ReadVersion, ReadValue, Backing, Database
<1>3. CASE Writers(i, x) # {}
  <2>1. \E m \in Writers(i, x) : \A k \in Writers(i, x) : k <= m
    <3>1. Writers(i, x) \subseteq 0..Len(block)
      BY BlockShape DEF Writers
    <3> QED BY <1>3, <3>1, GreatestExists, BlockShape
  <2>2. ReadVersion(i, x) \in Writers(i, x)
    BY <1>3, <2>1 DEF ReadVersion
  <2>3. mvcc[x][ReadVersion(i, x)] \in ValueOf(x)
    BY <2>2 DEF Writers, TypeOK
  <2> QED BY <1>1, <1>3, <2>2, <2>3, BlockShape DEF ReadValue, Backing
<1> QED BY <1>2, <1>3

(* A transaction reads items.                                              *)
LEMMA ReadSetType ==
  ASSUME NEW tx \in Tx
  PROVE  ReadSet(tx) \subseteq Items
BY DEF Tx, ReadSet, Items

(* What a thread returns is of the form its joiner expects.                *)
LEMMA AttemptType ==
  ASSUME TypeOK, NEW i \in TxIds
  PROVE  Attempt(i) \in Attempts(i)
<1> DEFINE tx == block[i]
           s  == ReadValue(i, tx.sender)
           r  == ReadValue(i, tx.recipient)
<1>1. tx \in Tx /\ i \in 1..Len(block) + 1 /\ i \in Nat
  BY BlockShape
<1>2. tx.sender \in Addrs /\ tx.recipient \in Addrs
  BY <1>1 DEF Tx
<1>3. s \in Account /\ r \in Account
  BY <1>1, <1>2, ReadVersionType DEF ValueOf, Items
<1>4. [x \in ReadSet(tx) |-> ReadVersion(i, x)] \in [ReadSet(tx) -> 0..i - 1]
  BY <1>1, ReadSetType, ReadVersionType
<1>5. CASE CanExecute(s, tx)
  <2>1. /\ Effects(tx, i, s, r) \in [WriteSet(tx) -> Value]
        /\ \A x \in WriteSet(tx) : Effects(tx, i, s, r)[x] \in ValueOf(x)
    <3> HIDE DEF tx, s, r
    <3> QED BY <1>1, <1>3, <1>5, EffectsType
  <2> QED BY <1>4, <1>5, <2>1 DEF Attempt, Attempts
<1>6. CASE ~CanExecute(s, tx)
  <2>1. Attempt(i) = [ok |-> FALSE, vers |-> [x \in ReadSet(tx) |-> ReadVersion(i, x)],
                      writes |-> <<>>]
    <3>1. CanExecute(s, tx) = FALSE
      BY <1>6 DEF CanExecute
    <3> QED BY <3>1 DEF Attempt
  <2> HIDE DEF s, r
  <2> QED BY <1>4, <2>1 DEF Attempts
<1> QED BY <1>5, <1>6
-----------------------------------------------------------------------------
(* The executor's state keeps its shape; in particular no thread ever sees *)
(* a version of its own transaction or of a later one, and the database    *)
(* handed back is well formed.                                             *)
THEOREM TypeCorrect == Spec => []TypeOK
<1>1. Init => TypeOK
  BY GenesisAssumption, RetriesAssumption DEF Init, TypeOK, TxIds
<1>2. TypeOK /\ [Next]_vars => TypeOK'
  <2> SUFFICES ASSUME TypeOK, [Next]_vars
               PROVE  TypeOK'
    OBVIOUS
  <2> USE DEF TxIds
  <2>1. CASE SpawnRound
    BY <2>1 DEF SpawnRound, TypeOK, Attempts
  <2>2. ASSUME NEW i \in TxIds, JoinCommit(i)
        PROVE  TypeOK'
    <3>1. /\ result[i] \in Attempts(i) /\ result[i].ok
          /\ i \in handles
      BY <2>2 DEF JoinCommit, Joining, TypeOK
    <3>2. /\ DOMAIN result[i].writes = WriteSet(block[i])
          /\ \A x \in WriteSet(block[i]) : result[i].writes[x] \in ValueOf(x)
      BY <3>1 DEF Attempts
    <3>3. \A x \in Items : Stored(i)[x] \in [TxIds -> ValueOf(x) \cup {NoVersion}]
      BY <3>2 DEF Stored, TypeOK
    <3>4. DOMAIN Stored(i) = Items
      BY DEF Stored
    <3>5. /\ DOMAIN mvcc' = Items
          /\ \A x \in Items : mvcc'[x] \in [TxIds' -> ValueOf(x) \cup {NoVersion}]
      BY <2>2, <3>3, <3>4 DEF JoinCommit
    <3> QED BY <2>2, <3>1, <3>5 DEF JoinCommit, TypeOK, Attempts
  <2>3. ASSUME NEW i \in TxIds, JoinConflict(i)
        PROVE  TypeOK'
    BY <2>3 DEF JoinConflict, Cleared, TypeOK, Attempts
  <2>4. ASSUME NEW i \in TxIds, JoinError(i)
        PROVE  TypeOK'
    BY <2>4 DEF JoinError, TypeOK, Attempts
  <2>5. CASE NextRound
    BY <2>5, RetriesAssumption DEF NextRound, LastRound, TypeOK, Attempts
  <2>6. CASE Diverge
    BY <2>6 DEF Diverge, TypeOK, Attempts
  <2>7. CASE Finalize
    <3>1. Len(block) + 1 \in 1..Len(block) + 1
      BY BlockShape
    <3>2. \A x \in Items : LastVersions[x] \in ValueOf(x)
      BY <3>1, ReadVersionType DEF LastVersions, TypeOK, Database, Writers
    <3>3. \A x : ValueOf(x) \subseteq Value
      BY DEF ValueOf, Value
    <3>4. LastVersions \in Database
      BY <3>2, <3>3 DEF LastVersions, Database
    <3> QED BY <2>7, <3>4 DEF Finalize, TypeOK, Attempts
  <2>8. ASSUME NEW i \in TxIds, Execute(i)
        PROVE  TypeOK'
    BY <2>8, AttemptType DEF Execute, TypeOK, Attempts
  <2>9. CASE UNCHANGED vars
    BY <2>9 DEF vars, TypeOK, Attempts
  <2> QED BY <2>1, <2>2, <2>3, <2>4, <2>5, <2>6, <2>7, <2>8, <2>9 DEF Next, Main
<1> QED BY <1>1, <1>2, PTL DEF Spec

-----------------------------------------------------------------------------
(* What a read can see of a transaction is all of its accepted attempt or  *)
(* nothing: no attempt that failed validation, or is still to be           *)
(* validated, is visible to any thread.                                    *)
THEOREM NoDirtyVersions == Spec => []VersionsAreExecuted
<1>1. Init => VersionsAreExecuted
  BY DEF Init, VersionsAreExecuted
<1>2. TypeOK /\ VersionsAreExecuted /\ [Next]_vars => VersionsAreExecuted'
  <2> SUFFICES ASSUME TypeOK, VersionsAreExecuted, [Next]_vars
               PROVE  VersionsAreExecuted'
    OBVIOUS
  <2> USE DEF TxIds
  <2>1. CASE SpawnRound
    BY <2>1 DEF SpawnRound, VersionsAreExecuted
  <2>2. ASSUME NEW i \in TxIds, JoinCommit(i)
        PROVE  VersionsAreExecuted'
    <3>1. result[i] \in Attempts(i) /\ result[i].ok
      BY <2>2 DEF JoinCommit, Joining, TypeOK
    <3>2. DOMAIN result[i].writes = WriteSet(block[i])
      BY <3>1 DEF Attempts
    <3>3. ASSUME NEW x \in Items
          PROVE  /\ x \in WriteSet(block[i]) => mvcc'[x] = [mvcc[x] EXCEPT ![i] = result[i].writes[x]]
                 /\ x \notin WriteSet(block[i]) => mvcc'[x] = mvcc[x]
      BY <2>2, <3>2 DEF JoinCommit, Stored
    <3>4. \A x \in Items : DOMAIN mvcc[x] = TxIds
      BY DEF TypeOK
    <3>5. i \notin executed
      BY <2>2 DEF JoinCommit, Joining, TypeOK
    <3>6. executed' = executed \cup {i} /\ UNCHANGED <<block, result>>
      BY <2>2 DEF JoinCommit
    <3> SUFFICES ASSUME NEW j \in TxIds, NEW x \in Items
                 PROVE  IF j \in executed' /\ x \in WriteSet(block[j])
                        THEN mvcc'[x][j] = result[j].writes[x]
                        ELSE mvcc'[x][j] = NoVersion
      BY <3>6 DEF VersionsAreExecuted
    <3>7. CASE j = i /\ x \in WriteSet(block[i])
      BY <3>3, <3>4, <3>6, <3>7
    <3>8. CASE j # i \/ x \notin WriteSet(block[i])
      <4>1. mvcc'[x][j] = mvcc[x][j]
        BY <3>3, <3>4, <3>8
      <4> QED BY <3>5, <3>6, <3>8, <4>1 DEF VersionsAreExecuted
    <3> QED BY <3>7, <3>8
  <2>3. ASSUME NEW i \in TxIds, JoinConflict(i)
        PROVE  VersionsAreExecuted'
    <3>1. i \notin executed
      BY <2>3 DEF JoinConflict, Joining, TypeOK
    <3> QED BY <2>3, <3>1 DEF JoinConflict, Cleared, VersionsAreExecuted, TypeOK
  <2>4. ASSUME NEW i \in TxIds, JoinError(i)
        PROVE  VersionsAreExecuted'
    BY <2>4 DEF JoinError, VersionsAreExecuted
  <2>5. CASE NextRound
    BY <2>5 DEF NextRound, VersionsAreExecuted
  <2>6. CASE Diverge
    BY <2>6 DEF Diverge, VersionsAreExecuted
  <2>7. CASE Finalize
    BY <2>7 DEF Finalize, VersionsAreExecuted
  <2>8. ASSUME NEW i \in TxIds, Execute(i)
        PROVE  VersionsAreExecuted'
    <3>1. i \notin executed
      BY <2>8 DEF Execute, TypeOK
    <3> QED BY <2>8, <3>1 DEF Execute, VersionsAreExecuted
  <2>9. CASE UNCHANGED vars
    BY <2>9 DEF vars, VersionsAreExecuted
  <2> QED BY <2>1, <2>2, <2>3, <2>4, <2>5, <2>6, <2>7, <2>8, <2>9 DEF Next, Main
<1> QED BY <1>1, <1>2, TypeCorrect, PTL DEF Spec

(* The caller's database is untouched by a call that fails or gives up.    *)
THEOREM Atomicity == Spec => []AllOrNothing
<1>1. Init => AllOrNothing
  BY DEF Init, AllOrNothing
<1>2. AllOrNothing /\ [Next]_vars => AllOrNothing'
  BY DEF AllOrNothing, Next, Main, vars, SpawnRound, JoinCommit, JoinConflict, JoinError,
         Joining, NextRound, Diverge, Finalize, Execute, AllJoined
<1> QED BY <1>1, <1>2, PTL DEF Spec

-----------------------------------------------------------------------------
(* Progress.  The transaction to watch in a round is number retry + 1: all *)
(* before it are executed, so in this round the main thread writes nothing *)
(* it could have read before it joins it, and its validation succeeds.     *)
FirstPendingFresh ==
  /\ \A i \in TxIds : i <= retry => i \in executed
  /\ status = "join" =>
       \A i \in TxIds : i = retry + 1 =>
         /\ i \in executed \cup handles
         /\ i \in handles /\ result[i] # NoResult => ReadsCurrent(i)

(* The first pending transaction finds nothing newer than it read.         *)
LEMMA FirstPendingInduction == Spec => []FirstPendingFresh
<1>1. Init => FirstPendingFresh
  <2>1. Init => TxIds \subseteq Nat \ {0}
    BY BlocksAssumption DEF Init, TxIds
  <2> QED BY <2>1 DEF Init, FirstPendingFresh
<1>2. TypeOK /\ FirstPendingFresh /\ [Next]_vars => FirstPendingFresh'
  <2> SUFFICES ASSUME TypeOK, FirstPendingFresh, [Next]_vars
               PROVE  FirstPendingFresh'
    OBVIOUS
  <2>a. TxIds \subseteq Nat /\ retry \in Nat
    BY BlockShape, RetriesAssumption DEF TypeOK
  <2>1. CASE SpawnRound
    BY <2>1 DEF SpawnRound, FirstPendingFresh, TxIds
  <2>2. ASSUME NEW i \in TxIds, JoinCommit(i)
        PROVE  FirstPendingFresh'
    <3>1. \A j \in TxIds : j = retry + 1 => j \notin handles'
      BY <2>2, <2>a DEF JoinCommit, Joining, FirstPendingFresh, TypeOK
    <3> QED BY <2>2, <2>a, <3>1 DEF JoinCommit, Joining, FirstPendingFresh, TypeOK, TxIds
  <2>3. ASSUME NEW i \in TxIds, JoinConflict(i)
        PROVE  FirstPendingFresh'
    <3>1. i # retry + 1
      BY <2>3 DEF JoinConflict, Joining, FirstPendingFresh
    <3>2. \A j \in TxIds : j = retry + 1 => j \notin handles
      BY <2>3, <2>a, <3>1 DEF JoinConflict, Joining, FirstPendingFresh, TypeOK
    <3> QED BY <2>3, <2>a, <3>1, <3>2
            DEF JoinConflict, Joining, FirstPendingFresh, TypeOK, TxIds
  <2>4. ASSUME NEW i \in TxIds, JoinError(i)
        PROVE  FirstPendingFresh'
    BY <2>4 DEF JoinError, FirstPendingFresh, TxIds
  <2>5. CASE NextRound
    <3>1. \A i \in TxIds : i = retry + 1 => i \in executed
      BY <2>5 DEF NextRound, AllJoined, FirstPendingFresh
    <3> QED BY <2>5, <2>a, <3>1 DEF NextRound, FirstPendingFresh, TxIds
  <2>6. CASE Diverge
    BY <2>6 DEF Diverge, FirstPendingFresh, TxIds
  <2>7. CASE Finalize
    BY <2>7 DEF Finalize, FirstPendingFresh, TxIds
  <2>8. ASSUME NEW i \in TxIds, Execute(i)
        PROVE  FirstPendingFresh'
    <3>1. UNCHANGED <<block, mvcc, executed, handles, retry, status>>
      BY <2>8 DEF Execute
    <3>2. \A j \in TxIds : j # i => result'[j] = result[j]
      BY <2>8 DEF Execute, TypeOK
    <3>3. result'[i].vers = [x \in ReadSet(block[i]) |-> ReadVersion(i, x)]
      BY <2>8 DEF Execute, TypeOK, Attempt
    <3>4. \A j, x : ReadVersion(j, x)' = ReadVersion(j, x)
      BY <3>1 DEF ReadVersion, Writers, TxIds
    <3>5. ReadsCurrent(i)'
      BY <3>3, <3>4 DEF ReadsCurrent
    <3>6. \A j \in TxIds : j # i /\ ReadsCurrent(j) => ReadsCurrent(j)'
      BY <3>2, <3>4 DEF ReadsCurrent
    <3> QED BY <3>1, <3>2, <3>5, <3>6 DEF FirstPendingFresh, TxIds
  <2>9. CASE UNCHANGED vars
    BY <2>9 DEF vars, FirstPendingFresh, ReadsCurrent, ReadVersion, Writers, TxIds
  <2> QED BY <2>1, <2>2, <2>3, <2>4, <2>5, <2>6, <2>7, <2>8, <2>9 DEF Next, Main
<1> QED BY <1>1, <1>2, TypeCorrect, PTL DEF Spec

(* Every round executes at least the first transaction still pending,      *)
(* whatever order the threads read in.                                     *)
THEOREM RoundProgress == Spec => []FirstPendingExecutes
<1>1. TypeOK /\ FirstPendingFresh => FirstPendingExecutes
  <2> SUFFICES ASSUME TypeOK, FirstPendingFresh, NEW i \in TxIds
               PROVE  /\ i <= retry => i \in executed
                      /\ AllJoined /\ i <= retry + 1 => i \in executed
    BY DEF FirstPendingExecutes
  <2>1. i \in Nat /\ retry \in Nat
    BY BlockShape, RetriesAssumption DEF TypeOK
  <2> QED BY <2>1 DEF FirstPendingFresh, AllJoined
<1> QED BY <1>1, TypeCorrect, FirstPendingInduction, PTL

(* The executor gives up only on a block longer than its retry budget.     *)
THEOREM Convergence == Spec => []DivergesOnlyWhenLong
<1> DEFINE Inv == status = "diverged" => ~(TxIds \subseteq 1..MaxRetries)
<1>1. Init => Inv
  BY DEF Init
<1>2. TypeOK /\ FirstPendingExecutes /\ Inv /\ [Next]_vars => Inv'
  <2> SUFFICES ASSUME TypeOK, FirstPendingExecutes, Inv, [Next]_vars
               PROVE  Inv'
    OBVIOUS
  <2>1. CASE Diverge
    <3>1. PICK i \in TxIds : i \notin executed
      BY <2>1 DEF Diverge, TypeOK
    <3>2. ~(i <= MaxRetries)
      BY <2>1, <3>1 DEF Diverge, LastRound, FirstPendingExecutes
    <3>3. i \notin 1..MaxRetries
      BY <3>2, BlockShape, RetriesAssumption
    <3> QED BY <2>1, <3>3 DEF Diverge, TxIds
  <2>2. CASE ~Diverge
    BY <2>2 DEF Next, Main, vars, SpawnRound, JoinCommit, JoinConflict, JoinError, Joining,
                NextRound, Finalize, Execute, AllJoined, TxIds
  <2> QED BY <2>1, <2>2
<1>3. TypeOK /\ Inv => DivergesOnlyWhenLong
  BY BlockShape, RetriesAssumption DEF DivergesOnlyWhenLong
<1> QED BY <1>1, <1>2, <1>3, TypeCorrect, RoundProgress, PTL DEF Spec

-----------------------------------------------------------------------------
(* The executor implements AtomicBlock.  At a join the recorded versions    *)
(* are compared, not the values: the argument needs that the version a      *)
(* thread has recorded still holds what the thread read under it.           *)

(* What version v of item x holds.                                         *)
VersionValue(x, v) == IF v = Backing THEN Genesis[x] ELSE mvcc[x][v]

IsVersion(x, v) == v = Backing \/ (v \in executed /\ mvcc[x][v] # NoVersion)

(* What transaction i of the block makes of the two accounts it read.      *)
IsAttempt(i, a) ==
  LET tx == block[i]
      s  == VersionValue(tx.sender, a.vers[tx.sender])
      r  == VersionValue(tx.recipient, a.vers[tx.recipient])
  IN  /\ IsVersion(tx.sender, a.vers[tx.sender])
      /\ IsVersion(tx.recipient, a.vers[tx.recipient])
      /\ a.ok <=> CanExecute(s, tx)
      /\ a.ok => a.writes = Effects(tx, i, s, r)

(* Of the attempts still to be joined and of those accepted.               *)
AttemptsHold ==
  \A i \in handles \cup executed : result[i] # NoResult => IsAttempt(i, result[i])

(* The value a read returns is the one of the version it records.          *)
LEMMA ReadsVersion ==
  ASSUME TypeOK, VersionsAreExecuted, NEW i \in 1..Len(block) + 1, NEW x \in Items
  PROVE  /\ IsVersion(x, ReadVersion(i, x))
         /\ VersionValue(x, ReadVersion(i, x)) = ReadValue(i, x)
BY ReadVersionType DEF IsVersion, VersionValue, ReadValue, Writers, VersionsAreExecuted

(* Storing or dropping the writes of one transaction leaves the versions   *)
(* the other attempts recorded as they were.                               *)
LEMMA AttemptsHoldInduction == Spec => []AttemptsHold
<1>1. Init => AttemptsHold
  BY DEF Init, AttemptsHold
<1>2. TypeOK /\ VersionsAreExecuted /\ AttemptsHold /\ [Next]_vars => AttemptsHold'
  <2> SUFFICES ASSUME TypeOK, VersionsAreExecuted, AttemptsHold, [Next]_vars
               PROVE  AttemptsHold'
    OBVIOUS
  <2>1. CASE SpawnRound
    <3>1. /\ UNCHANGED <<block, mvcc, executed>> /\ handles' = TxIds \ executed
          /\ \A i \in TxIds : result'[i] = IF i \in executed THEN result[i] ELSE NoResult
          /\ executed \subseteq TxIds
      BY <2>1 DEF SpawnRound, TypeOK
    <3>2. ASSUME NEW i, NEW a
          PROVE  IsAttempt(i, a)' <=> IsAttempt(i, a)
      BY <3>1 DEF IsAttempt, IsVersion, VersionValue
    <3> QED BY <3>1, <3>2 DEF AttemptsHold
  <2>2. ASSUME NEW j \in TxIds, j \in handles, j \notin executed,
               executed \subseteq executed', executed' \cup handles' \subseteq executed \cup handles,
               UNCHANGED <<block, result>>,
               DOMAIN mvcc' = Items,
               \A x \in Items : \A k \in TxIds : k # j => mvcc'[x][k] = mvcc[x][k]
        PROVE  AttemptsHold'
    <3> SUFFICES ASSUME NEW i \in handles \cup executed, result[i] # NoResult
                 PROVE  IsAttempt(i, result[i])'
      BY <2>2 DEF AttemptsHold
    <3> DEFINE tx == block[i]
               a  == result[i]
    <3>1. i \in TxIds /\ IsAttempt(i, a) /\ a \in Attempts(i)
      BY DEF AttemptsHold, TypeOK
    <3>2. tx \in Tx /\ i \in Nat
      BY <3>1, BlockShape
    <3>3. tx.sender \in Items /\ tx.recipient \in Items
          /\ tx.sender \in ReadSet(tx) /\ tx.recipient \in ReadSet(tx)
      BY <3>2 DEF Tx, Items, ReadSet
    <3>4. a.vers[tx.sender] \in Nat /\ a.vers[tx.recipient] \in Nat
      BY <3>1, <3>2, <3>3 DEF Attempts
    <3>5. ASSUME NEW x \in Items, NEW v \in Nat, IsVersion(x, v)
          PROVE  IsVersion(x, v)' /\ VersionValue(x, v)' = VersionValue(x, v)
      BY <2>2, <3>5 DEF IsVersion, VersionValue, TypeOK, Backing
    <3>6. /\ IsVersion(tx.sender, a.vers[tx.sender])
          /\ IsVersion(tx.recipient, a.vers[tx.recipient])
      BY <3>1 DEF IsAttempt
    <3>7. /\ IsVersion(tx.sender, a.vers[tx.sender])'
          /\ IsVersion(tx.recipient, a.vers[tx.recipient])'
          /\ VersionValue(tx.sender, a.vers[tx.sender])' = VersionValue(tx.sender, a.vers[tx.sender])
          /\ VersionValue(tx.recipient, a.vers[tx.recipient])'
               = VersionValue(tx.recipient, a.vers[tx.recipient])
      BY <2>2, <3>3, <3>4, <3>5, <3>6
    <3> HIDE DEF tx, a
    <3> QED BY <2>2, <3>1, <3>7 DEF IsAttempt, tx, a
  <2>3. ASSUME NEW j \in TxIds, JoinCommit(j)
        PROVE  AttemptsHold'
    <3>1. j \in handles /\ j \notin executed
      BY <2>3 DEF JoinCommit, Joining, TypeOK
    <3>2. DOMAIN Stored(j) = Items /\ \A x \in Items : \A k \in TxIds : k # j => Stored(j)[x][k] = mvcc[x][k]
      BY DEF Stored, TypeOK
    <3> QED BY <2>2, <2>3, <3>1, <3>2 DEF JoinCommit
  <2>4. ASSUME NEW j \in TxIds, JoinConflict(j)
        PROVE  AttemptsHold'
    <3>1. j \in handles /\ j \notin executed
      BY <2>4 DEF JoinConflict, Joining, TypeOK
    <3>2. DOMAIN Cleared(j) = Items /\ \A x \in Items : \A k \in TxIds : k # j => Cleared(j)[x][k] = mvcc[x][k]
      BY DEF Cleared, TypeOK
    <3> QED BY <2>2, <2>4, <3>1, <3>2 DEF JoinConflict
  <2>5. ASSUME UNCHANGED <<block, mvcc, executed, handles, result>>
        PROVE  AttemptsHold'
    BY <2>5 DEF AttemptsHold, IsAttempt, IsVersion, VersionValue
  <2>6. ASSUME NEW j \in TxIds, Execute(j)
        PROVE  AttemptsHold'
    <3> DEFINE tx == block[j]
    <3>1. /\ UNCHANGED <<block, mvcc, executed, handles>> /\ j \in handles
          /\ result' = [result EXCEPT ![j] = Attempt(j)]
      BY <2>6 DEF Execute
    <3>2. \A i \in handles \cup executed : i # j => result'[i] = result[i]
      BY <3>1 DEF TypeOK
    <3>3. result'[j] = Attempt(j)
      BY <3>1 DEF TypeOK
    <3>4. IsAttempt(j, Attempt(j))
      <4>1. tx \in Tx /\ j \in 1..Len(block) + 1
        BY BlockShape
      <4>2. tx.sender \in Items /\ tx.recipient \in Items
            /\ tx.sender \in ReadSet(tx) /\ tx.recipient \in ReadSet(tx)
        BY <4>1 DEF Tx, Items, ReadSet
      <4>3. /\ Attempt(j).vers[tx.sender] = ReadVersion(j, tx.sender)
            /\ Attempt(j).vers[tx.recipient] = ReadVersion(j, tx.recipient)
        BY <4>2 DEF Attempt
      <4>4. Attempt(j).ok <=> CanExecute(ReadValue(j, tx.sender), tx)
        BY DEF Attempt
      <4>5. Attempt(j).ok =>
              Attempt(j).writes = Effects(tx, j, ReadValue(j, tx.sender), ReadValue(j, tx.recipient))
        BY <4>4 DEF Attempt
      <4>6. /\ IsVersion(tx.sender, ReadVersion(j, tx.sender))
            /\ IsVersion(tx.recipient, ReadVersion(j, tx.recipient))
            /\ VersionValue(tx.sender, ReadVersion(j, tx.sender)) = ReadValue(j, tx.sender)
            /\ VersionValue(tx.recipient, ReadVersion(j, tx.recipient)) = ReadValue(j, tx.recipient)
        BY <4>1, <4>2, ReadsVersion
      <4> QED BY <4>3, <4>4, <4>5, <4>6 DEF IsAttempt
    <3>5. ASSUME NEW i, NEW a
          PROVE  IsAttempt(i, a)' <=> IsAttempt(i, a)
      BY <3>1 DEF IsAttempt, IsVersion, VersionValue
    <3> QED BY <3>1, <3>2, <3>3, <3>4, <3>5 DEF AttemptsHold
  <2> QED
    BY <2>1, <2>3, <2>4, <2>5, <2>6 DEF Next, Main, vars, JoinError, NextRound, Diverge, Finalize
<1> QED BY <1>1, <1>2, TypeCorrect, NoDirtyVersions, PTL DEF Spec

(* The accepted attempt of an executed transaction is kept.                *)
ExecutedKept == \A i \in executed : result[i] # NoResult /\ result[i].ok

(* An executed transaction has its result.                                 *)
LEMMA ExecutedKeptInduction == Spec => []ExecutedKept
<1>1. Init => ExecutedKept
  BY DEF Init, ExecutedKept
<1>2. TypeOK /\ ExecutedKept /\ [Next]_vars => ExecutedKept'
  <2> SUFFICES ASSUME TypeOK, ExecutedKept, [Next]_vars
               PROVE  ExecutedKept'
    OBVIOUS
  <2>1. CASE SpawnRound
    BY <2>1 DEF SpawnRound, ExecutedKept, TypeOK
  <2>2. ASSUME NEW i \in TxIds, JoinCommit(i)
        PROVE  ExecutedKept'
    BY <2>2 DEF JoinCommit, Joining, ExecutedKept
  <2>3. ASSUME NEW i \in TxIds, Execute(i)
        PROVE  ExecutedKept'
    BY <2>3 DEF Execute, ExecutedKept, TypeOK
  <2>4. CASE UNCHANGED <<executed, result>>
    BY <2>4 DEF ExecutedKept
  <2> QED
    BY <2>1, <2>2, <2>3, <2>4
    DEF Next, Main, vars, JoinConflict, JoinError, NextRound, Diverge, Finalize
<1> QED BY <1>1, <1>2, TypeCorrect, PTL DEF Spec

(* What AtomicBlock finds in an item is what a read returns now.           *)
LEMMA FoundIsRead ==
  ASSUME TypeOK, VersionsAreExecuted, ExecutedKept, NEW i \in 1..Len(block) + 1, NEW x \in Items
  PROVE  /\ Atomic!Found(i, x) = ReadValue(i, x)
         /\ Atomic!Earlier(i, x) = Writers(i, x)
<1>1. \A j \in executed : DOMAIN result[j].writes = WriteSet(block[j])
  BY DEF ExecutedKept, TypeOK, Attempts
<1>2. \A j \in TxIds : j \in executed /\ x \in WriteSet(block[j]) <=> mvcc[x][j] # NoVersion
  <2> SUFFICES ASSUME NEW j \in TxIds, j \in executed, x \in WriteSet(block[j])
               PROVE  mvcc[x][j] # NoVersion
    BY DEF VersionsAreExecuted
  <2>1. mvcc[x][j] = result[j].writes[x]
    BY DEF VersionsAreExecuted
  <2>2. result[j].writes[x] \in ValueOf(x)
    BY DEF ExecutedKept, TypeOK, Attempts
  <2> QED BY <2>1, <2>2, SentinelAssumption DEF ValueOf, Value
<1>3. executed \subseteq TxIds
  BY DEF TypeOK
<1>4. Atomic!Earlier(i, x) = Writers(i, x)
  BY <1>1, <1>2, <1>3 DEF Atomic!Earlier, Writers
<1>5. \A j \in Writers(i, x) : j \in executed /\ mvcc[x][j] = result[j].writes[x]
  BY <1>2 DEF Writers, VersionsAreExecuted
<1>6. CASE Writers(i, x) = {}
  BY <1>4, <1>6 DEF Atomic!Found, ReadValue
<1>7. CASE Writers(i, x) # {}
  <2>1. ReadVersion(i, x) \in Writers(i, x)
    BY <1>7, ReadVersionType
  <2>2. Atomic!Found(i, x) = [j \in executed |-> result[j].writes][ReadVersion(i, x)][x]
    BY <1>4, <1>7 DEF Atomic!Found, ReadVersion
  <2> QED BY <1>4, <1>5, <1>7, <2>1, <2>2 DEF ReadValue
<1> QED BY <1>4, <1>6, <1>7

(* A block goes through as AtomicBlock says, whatever the threads do.      *)
THEOREM Implementation == Spec => ImplementsAtomicBlock
<1> DEFINE Inv == TypeOK /\ VersionsAreExecuted /\ ExecutedKept /\ AttemptsHold /\ AllOrNothing
<1>1. Init => Atomic!Init
  BY DEF Init, Atomic!Init
<1>2. Inv /\ [Next]_vars => [Atomic!Next]_(Atomic!vars)
  <2> SUFFICES ASSUME Inv, [Next]_vars
               PROVE  [Atomic!Next]_(Atomic!vars)
    OBVIOUS
  <2>1. CASE SpawnRound
    <3>1. [i \in executed |-> result[i].writes]' = [i \in executed |-> result[i].writes]
      BY <2>1 DEF SpawnRound, TypeOK
    <3> QED BY <2>1, <3>1 DEF SpawnRound, Atomic!vars
  <2>2. ASSUME NEW i \in TxIds, JoinCommit(i)
        PROVE  Atomic!TakeEffect(i)
    <3> DEFINE tx == block[i]
    <3>1. /\ i \in handles /\ result[i] # NoResult /\ result[i].ok /\ ReadsCurrent(i)
          /\ status = "join" /\ i \notin executed /\ result[i] \in Attempts(i)
      BY <2>2 DEF JoinCommit, Joining, TypeOK
    <3>2. tx \in Tx /\ i \in 1..Len(block) + 1
      BY BlockShape
    <3>3. tx.sender \in Items /\ tx.recipient \in Items
          /\ tx.sender \in ReadSet(tx) /\ tx.recipient \in ReadSet(tx)
      BY <3>2 DEF Tx, Items, ReadSet
    <3>4. /\ result[i].vers[tx.sender] = ReadVersion(i, tx.sender)
          /\ result[i].vers[tx.recipient] = ReadVersion(i, tx.recipient)
      BY <3>1, <3>3 DEF ReadsCurrent, Attempts
    <3>5. /\ VersionValue(tx.sender, ReadVersion(i, tx.sender)) = Atomic!Found(i, tx.sender)
          /\ VersionValue(tx.recipient, ReadVersion(i, tx.recipient)) = Atomic!Found(i, tx.recipient)
      BY <3>2, <3>3, ReadsVersion, FoundIsRead
    <3>6. IsAttempt(i, result[i]) /\ result[i].ok
      BY <3>1 DEF AttemptsHold
    <3>7. /\ CanExecute(Atomic!Found(i, tx.sender), tx)
          /\ result[i].writes = Effects(tx, i, Atomic!Found(i, tx.sender), Atomic!Found(i, tx.recipient))
      BY <3>4, <3>5, <3>6 DEF IsAttempt
    <3>8. /\ UNCHANGED <<block, db, result, status>> /\ executed' = executed \cup {i}
      BY <2>2 DEF JoinCommit
    <3>9. \A s, r : /\ Atomic!CanExecute(s, tx) = CanExecute(s, tx)
                    /\ Atomic!Effects(tx, i, s, r) = Effects(tx, i, s, r)
      BY DEF Atomic!CanExecute, CanExecute, Atomic!Effects, Effects, Atomic!WriteSet, WriteSet,
             Atomic!Credit, Credit, Atomic!Debit, Debit
    <3> DEFINE out == Atomic!Effects(tx, i, Atomic!Found(i, tx.sender), Atomic!Found(i, tx.recipient))
    <3>10. [j \in executed' |-> result'[j].writes]
             = [j \in DOMAIN [k \in executed |-> result[k].writes] \cup {i} |->
                  IF j = i THEN out ELSE [k \in executed |-> result[k].writes][j]]
      <4>1. result[i].writes = out
        BY <3>7, <3>9
      <4> HIDE DEF out
      <4> QED BY <3>1, <3>8, <4>1
    <3> QED BY <3>1, <3>7, <3>8, <3>9, <3>10 DEF Atomic!TakeEffect
  <2>3. CASE Finalize
    <3>1. status = "join" /\ executed = TxIds /\ db' = LastVersions /\ status' = "ok"
          /\ UNCHANGED <<block, executed, result>>
      BY <2>3 DEF Finalize, AllJoined
    <3>2. db = Genesis
      BY <3>1 DEF AllOrNothing
    <3>3. Len(block) + 1 \in 1..Len(block) + 1
      BY BlockShape
    <3>4. \A x \in Items : LastVersions[x] = Atomic!Found(Len(block) + 1, x)
      BY <3>2, <3>3, FoundIsRead, ReadVersionType DEF LastVersions, ReadValue
    <3>5. LastVersions = [x \in Items |-> Atomic!Found(Len(block) + 1, x)]
      BY <3>4 DEF LastVersions
    <3> QED BY <3>1, <3>5 DEF Atomic!Next, Atomic!Finish, Atomic!TxIds, TxIds, Atomic!Items, Items
  <2>4. ASSUME status \in {"spawn", "join"}, status' \in {"failed", "diverged"},
               UNCHANGED <<block, db, executed, result>>
        PROVE  Atomic!Abort
    BY <2>4 DEF Atomic!Abort
  <2>5. ASSUME NEW i \in TxIds, Execute(i)
        PROVE  UNCHANGED Atomic!vars
    BY <2>5 DEF Execute, TypeOK, Atomic!vars
  <2>6. ASSUME NEW i \in TxIds, JoinConflict(i)
        PROVE  UNCHANGED Atomic!vars
    BY <2>6 DEF JoinConflict, Atomic!vars
  <2>7. ASSUME NEW i \in TxIds, JoinError(i)
        PROVE  Atomic!Abort
    BY <2>4, <2>7 DEF JoinError, Joining
  <2>8. CASE NextRound
    BY <2>8 DEF NextRound, AllJoined, Atomic!vars
  <2>9. CASE Diverge
    BY <2>4, <2>9 DEF Diverge, AllJoined, Atomic!Next
  <2>10. CASE UNCHANGED vars
    BY <2>10 DEF vars, Atomic!vars
  <2> QED
    BY <2>1, <2>2, <2>3, <2>5, <2>6, <2>7, <2>8, <2>9, <2>10
    DEF Next, Main, Atomic!Next, Atomic!TxIds, TxIds
<1> QED BY <1>1, <1>2, TypeCorrect, NoDirtyVersions, Atomicity,
           ExecutedKeptInduction, AttemptsHoldInduction, PTL DEF Spec, Atomic!Spec, ImplementsAtomicBlock

-----------------------------------------------------------------------------
(* Serial results.  A block that went through holds the last version of    *)
(* every item.                                                             *)
OkIsFinal ==
  status = "ok" => /\ executed = TxIds
                   /\ db = [x \in Items |-> ReadValue(Len(block) + 1, x)]

(* When the call returns Ok all transactions are executed.                 *)
LEMMA OkIsFinalInduction == Spec => []OkIsFinal
<1>1. Init => OkIsFinal
  BY DEF Init, OkIsFinal
<1>2. TypeOK /\ AllOrNothing /\ OkIsFinal /\ [Next]_vars => OkIsFinal'
  <2> SUFFICES ASSUME TypeOK, AllOrNothing, OkIsFinal, [Next]_vars
               PROVE  OkIsFinal'
    OBVIOUS
  <2>1. CASE Finalize
    <3>1. /\ executed = TxIds /\ db' = LastVersions /\ db = Genesis
          /\ UNCHANGED <<block, mvcc, executed>>
      BY <2>1 DEF Finalize, AllJoined, AllOrNothing
    <3>2. Len(block) + 1 \in 1..Len(block) + 1
      BY BlockShape
    <3>3. \A x \in Items : LastVersions[x] = ReadValue(Len(block) + 1, x)
      BY <3>1, <3>2, ReadVersionType DEF LastVersions, ReadValue
    <3>4. LastVersions = [x \in Items |-> ReadValue(Len(block) + 1, x)]
      BY <3>3 DEF LastVersions
    <3>5. \A x : ReadValue(Len(block) + 1, x)' = ReadValue(Len(block) + 1, x)
      BY <3>1 DEF ReadValue, ReadVersion, Writers, TxIds
    <3> QED BY <3>1, <3>4, <3>5 DEF OkIsFinal, TxIds
  <2>2. CASE UNCHANGED vars
    <3>1. \A x : ReadValue(Len(block) + 1, x)' = ReadValue(Len(block) + 1, x)
      BY <2>2 DEF ReadValue, ReadVersion, Writers, TxIds, vars
    <3> QED BY <2>2, <3>1 DEF OkIsFinal, TxIds, vars
  <2>3. CASE Next /\ ~Finalize
    <3>1. status' # "ok"
      BY <2>3 DEF Next, Main, SpawnRound, JoinCommit, JoinConflict, JoinError, Joining,
                  NextRound, Diverge, AllJoined, Execute
    <3> QED BY <3>1 DEF OkIsFinal
  <2> QED BY <2>1, <2>2, <2>3
<1> QED BY <1>1, <1>2, TypeCorrect, Atomicity, PTL DEF Spec

BlockRun == SerialRun(block, BlockOrder(block))

(* The serial run of the block, step by step.                              *)
LEMMA BlockRunDef ==
  ASSUME TypeOK
  PROVE  /\ Len(BlockOrder(block)) = Len(block)
         /\ BlockRun[0] = Start
         /\ \A i \in TxIds : BlockRun[i] = SerialStep(BlockRun[i - 1], block[i], i)
<1>1. Len(block) \in Nat /\ TxIds = 1..Len(block)
  BY BlockShape
<1>2. Len(BlockOrder(block)) = Len(block)
  BY <1>1 DEF BlockOrder
<1> QED BY <1>1, <1>2, SerialRunDef DEF BlockRun, BlockOrder

(* The item is what transaction i left there, or what it would have read.  *)
LEMMA NextReadValue ==
  ASSUME TypeOK, VersionsAreExecuted, ExecutedKept, NEW i \in executed, NEW x \in Items
  PROVE  ReadValue(i + 1, x) =
           IF x \in WriteSet(block[i]) THEN result[i].writes[x] ELSE ReadValue(i, x)
<1>1. Len(block) \in Nat /\ TxIds = 1..Len(block) /\ i \in TxIds
  BY BlockShape DEF TypeOK
<1>2. i \in 1..Len(block) + 1 /\ i + 1 \in 1..Len(block) + 1
  BY <1>1
<1>3. CASE x \in WriteSet(block[i])
  <2>1. mvcc[x][i] = result[i].writes[x] /\ result[i].writes[x] \in ValueOf(x)
    BY <1>1, <1>3 DEF VersionsAreExecuted, ExecutedKept, TypeOK, Attempts
  <2>2. mvcc[x][i] # NoVersion
    BY <2>1, SentinelAssumption DEF ValueOf, Value
  <2>3. i \in Writers(i + 1, x) /\ \A k \in Writers(i + 1, x) : k <= i
    BY <1>1, <2>2 DEF Writers
  <2>4. ReadVersion(i + 1, x) = i
    <3>1. \A k \in Writers(i + 1, x) : (\A l \in Writers(i + 1, x) : l <= k) => k = i
      BY <1>1, <2>3 DEF Writers
    <3> QED BY <2>3, <3>1 DEF ReadVersion
  <2>5. ReadValue(i + 1, x) = mvcc[x][i]
    BY <2>3, <2>4 DEF ReadValue
  <2> QED BY <1>3, <2>1, <2>5
<1>4. CASE x \notin WriteSet(block[i])
  <2>1. mvcc[x][i] = NoVersion
    BY <1>1, <1>4 DEF VersionsAreExecuted
  <2>2. Writers(i + 1, x) = Writers(i, x)
    BY <1>1, <2>1 DEF Writers
  <2>3. ReadVersion(i + 1, x) = ReadVersion(i, x)
    <3> DEFINE Version(W) == IF W = {} THEN Backing ELSE CHOOSE j \in W : \A k \in W : k <= j
    <3>1. ReadVersion(i + 1, x) = Version(Writers(i + 1, x)) /\ ReadVersion(i, x) = Version(Writers(i, x))
      BY Zenon DEF ReadVersion
    <3> HIDE DEF Version
    <3> QED BY <2>2, <3>1
  <2> QED BY <1>4, <2>2, <2>3 DEF ReadValue
<1> QED BY <1>3, <1>4

(* A transaction that was executed and whose versions are still current    *)
(* did what it does alone after the transactions before it.                *)
LEMMA CurrentIsSerialStep ==
  ASSUME TypeOK, VersionsAreExecuted, ExecutedKept, AttemptsHold,
         NEW i \in TxIds, i \in executed \cup handles, result[i] # NoResult, ReadsCurrent(i)
  PROVE  LET tx == block[i]
         IN  /\ tx.sender \in Items /\ tx.recipient \in Items
             /\ result[i].ok <=> CanExecute(ReadValue(i, tx.sender), tx)
             /\ result[i].ok => result[i].writes =
                  Effects(tx, i, ReadValue(i, tx.sender), ReadValue(i, tx.recipient))
<1> DEFINE tx == block[i]
<1>1. tx \in Tx /\ i \in 1..Len(block) + 1 /\ result[i] \in Attempts(i)
  BY BlockShape DEF TypeOK
<1>2. tx.sender \in Items /\ tx.recipient \in Items
      /\ tx.sender \in ReadSet(tx) /\ tx.recipient \in ReadSet(tx)
  BY <1>1 DEF Tx, Items, ReadSet
<1>3. /\ result[i].vers[tx.sender] = ReadVersion(i, tx.sender)
      /\ result[i].vers[tx.recipient] = ReadVersion(i, tx.recipient)
  BY <1>1, <1>2 DEF ReadsCurrent, Attempts
<1>4. /\ VersionValue(tx.sender, ReadVersion(i, tx.sender)) = ReadValue(i, tx.sender)
      /\ VersionValue(tx.recipient, ReadVersion(i, tx.recipient)) = ReadValue(i, tx.recipient)
  BY <1>1, <1>2, ReadsVersion
<1>5. IsAttempt(i, result[i])
  BY DEF AttemptsHold
<1> QED BY <1>2, <1>3, <1>4, <1>5 DEF IsAttempt

(* As long as the transactions are executed and read current versions, the *)
(* serial execution has in each item what the next transaction reads.      *)
LEMMA SerialSoFar ==
  ASSUME TypeOK, VersionsAreExecuted, ExecutedKept, AttemptsHold,
         NEW n \in 0..Len(block), 1..n \subseteq executed, \A j \in 1..n : ReadsCurrent(j)
  PROVE  BlockRun[n] = [ok |-> TRUE, db |-> [x \in Items |-> ReadValue(n + 1, x)]]
<1> DEFINE As(k) == [ok |-> TRUE, db |-> [x \in Items |-> ReadValue(k + 1, x)]]
           S == {k \in 0..n : BlockRun[k] # As(k)}
<1>0. Len(block) \in Nat /\ TxIds = 1..Len(block)
  BY BlockShape
<1> SUFFICES BlockRun[n] = As(n)
  OBVIOUS
<1> HIDE DEF As
<1> SUFFICES ASSUME S # {} PROVE FALSE
  BY <1>0
<1>1. PICK m \in S : \A k \in S : m <= k
  <2>1. S \subseteq Nat
    BY <1>0
  <2> HIDE DEF S
  <2> QED BY <2>1, LeastExists
<1>2. CASE m = 0
  <2>1. \A x \in Items : ReadValue(1, x) = Genesis[x]
    <3>1. \A x : Writers(1, x) = {}
      BY <1>0 DEF Writers
    <3> QED BY <3>1 DEF ReadValue
  <2>2. Genesis = [x \in Items |-> Genesis[x]]
    BY GenesisAssumption DEF Database
  <2>3. [x \in Items |-> ReadValue(0 + 1, x)] = Genesis
    BY <2>1, <2>2
  <2> QED BY <1>1, <1>2, <2>3, BlockRunDef DEF Start, As
<1>3. CASE m # 0
  <2> DEFINE tx == block[m]
             before == [x \in Items |-> ReadValue(m, x)]
  <2>1. m \in 1..n /\ m \in TxIds /\ m \in executed /\ m - 1 \in 0..n /\ m - 1 + 1 = m
    BY <1>0, <1>1, <1>3
  <2>2. BlockRun[m - 1] = [ok |-> TRUE, db |-> before]
    <3>1. m - 1 \notin S
      BY <1>0, <1>1, <2>1
    <3> QED BY <2>1, <3>1 DEF As
  <2>3. BlockRun[m] = SerialStep([ok |-> TRUE, db |-> before], tx, m)
    BY <2>1, <2>2, BlockRunDef
  <2>4. /\ tx.sender \in Items /\ tx.recipient \in Items
        /\ CanExecute(before[tx.sender], tx)
        /\ result[m].writes = Effects(tx, m, before[tx.sender], before[tx.recipient])
    BY <2>1, CurrentIsSerialStep DEF ExecutedKept
  <2>5. BlockRun[m] = [ok |-> TRUE, db |-> Overlay(before, result[m].writes)]
    <3> HIDE DEF before
    <3> QED BY <2>3, <2>4 DEF SerialStep
  <2>6. DOMAIN result[m].writes = WriteSet(tx)
    BY <2>4 DEF Effects
  <2>7. \A x \in Items : Overlay(before, result[m].writes)[x] = ReadValue(m + 1, x)
    BY <2>1, <2>6, NextReadValue DEF Overlay
  <2>8. Overlay(before, result[m].writes) = [x \in Items |-> ReadValue(m + 1, x)]
    BY <2>7 DEF Overlay
  <2> QED BY <1>1, <2>5, <2>8 DEF As
<1> QED BY <1>2, <1>3

(* Whatever ran in parallel: a block that went through with current reads  *)
(* left the database serial execution leaves, and the error of a           *)
(* transaction that read current versions, as those before it did, is one  *)
(* serial execution meets.                                                 *)
THEOREM SerialResult == Spec => []CurrentReadsAreSerial
<1>1. TypeOK /\ VersionsAreExecuted /\ ExecutedKept /\ AttemptsHold /\ OkIsFinal
        => CurrentReadsAreSerial
  <2> SUFFICES ASSUME TypeOK, VersionsAreExecuted, ExecutedKept, AttemptsHold, OkIsFinal
               PROVE  CurrentReadsAreSerial
    OBVIOUS
  <2> DEFINE serial == Serial(block, BlockOrder(block))
  <2>0. Len(block) \in Nat /\ TxIds = 1..Len(block) /\ Len(BlockOrder(block)) = Len(block)
    BY BlockShape, BlockRunDef
  <2>1. serial = BlockRun[Len(block)]
    BY <2>0 DEF Serial, BlockRun
  <2>2. ASSUME status = "ok", \A i \in TxIds : ReadsCurrent(i)
        PROVE  serial = [ok |-> TRUE, db |-> db]
    <3>1. executed = TxIds /\ db = [x \in Items |-> ReadValue(Len(block) + 1, x)]
      BY <2>2 DEF OkIsFinal
    <3>2. Len(block) \in 0..Len(block) /\ 1..Len(block) \subseteq executed
          /\ \A j \in 1..Len(block) : ReadsCurrent(j)
      BY <2>0, <2>2, <3>1
    <3>3. BlockRun[Len(block)] = [ok |-> TRUE, db |-> [x \in Items |-> ReadValue(Len(block) + 1, x)]]
      BY <3>2, SerialSoFar
    <3> QED BY <2>1, <3>1, <3>3
  <2>3. ASSUME NEW i \in handles, result[i] # NoResult, ~result[i].ok,
               1..(i - 1) \subseteq executed, \A j \in 1..i : ReadsCurrent(j)
        PROVE  ~serial.ok
    <3>1. i \in TxIds /\ i - 1 \in 0..Len(block) /\ i - 1 + 1 = i
          /\ ReadsCurrent(i) /\ \A j \in 1..(i - 1) : ReadsCurrent(j)
      BY <2>0, <2>3 DEF TypeOK
    <3>2. BlockRun[i - 1] = [ok |-> TRUE, db |-> [x \in Items |-> ReadValue(i, x)]]
      <4>1. BlockRun[i - 1] = [ok |-> TRUE, db |-> [x \in Items |-> ReadValue(i - 1 + 1, x)]]
        BY <2>3, <3>1, SerialSoFar
      <4> QED BY <3>1, <4>1
    <3>3. block[i].sender \in Items /\ ~CanExecute(ReadValue(i, block[i].sender), block[i])
      BY <2>3, <3>1, CurrentIsSerialStep
    <3>4. BlockRun[i] = SerialStep(BlockRun[i - 1], block[i], i)
      BY <3>1, BlockRunDef
    <3>5. ~BlockRun[i].ok
      BY <3>2, <3>3, <3>4 DEF SerialStep
    <3>6. i \in 0..Len(BlockOrder(block)) /\ Len(BlockOrder(block)) \in Nat
      BY <2>0, <3>1
    <3> QED BY <3>5, <3>6, SerialStaysFailed DEF BlockRun
  <2> QED BY <2>2, <2>3 DEF CurrentReadsAreSerial
<1> QED BY <1>1, TypeCorrect, NoDirtyVersions, ExecutedKeptInduction, AttemptsHoldInduction,
           OkIsFinalInduction, PTL
==============================================================================
