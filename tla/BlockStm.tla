------------------------------- MODULE BlockStm -------------------------------
(***************************************************************************)
(* PevmExecutor of crates/consensus/src/parallel.rs: optimistic execution  *)
(* of a block over multi-version state.  Each round starts one thread per  *)
(* transaction not yet executed; a thread takes the lock, reads what it    *)
(* needs together with the versions it saw, and computes.  The main thread *)
(* joins the threads in block order and, for each, validates the versions  *)
(* and stores its writes, or drops the attempt for the next round.         *)
(*                                                                         *)
(* A thread's read happens in one step because it happens under the lock;  *)
(* what it does after the unlock touches nothing that is shared.  Threads  *)
(* read while the main thread is already joining earlier ones.             *)
(*                                                                         *)
(* A definition Mut<Name> is <Name> with a mistake one could make in that  *)
(* code; it is used nowhere and tells which property would notice.         *)
(***************************************************************************)
EXTENDS TxModel

CONSTANTS
  Blocks,       \* the blocks that may be submitted
  MaxRetries,   \* max_retries
  NoVersion,    \* no entry of a transaction in a version list
  NoResult      \* a thread that has not run yet

ASSUME BlocksAssumption == Blocks \subseteq Seq(Tx)
ASSUME RetriesAssumption == MaxRetries \in Nat \ {0}
ASSUME SentinelAssumption == NoVersion \notin Value

VARIABLES
  block,      \* access_lists
  db,         \* the caller's WitnessDatabase; backing_db is its value at the start
  mvcc,       \* MvccState: the version each transaction holds of each item
  executed,   \* the transactions whose writes are in mvcc for good
  handles,    \* the threads of this round the main thread has still to join
  result,     \* what each transaction's last thread returned
  retry,      \* rounds started and not finished with
  status      \* "spawn", "join", and the outcomes "ok", "failed", "diverged"

vars == <<block, db, mvcc, executed, handles, result, retry, status>>

TxIds == DOMAIN block

(* usize::MAX, the version number of a value taken from backing_db.        *)
Backing == 0

MutWriters(i, x) == {j \in TxIds : j # i /\ mvcc[x][j] # NoVersion}
Writers(i, x) == {j \in TxIds : j < i /\ mvcc[x][j] # NoVersion}

ReadVersion(i, x) ==
  IF Writers(i, x) = {} THEN Backing
  ELSE CHOOSE j \in Writers(i, x) : \A k \in Writers(i, x) : k <= j

MutReadValue(i, x) == Genesis[x]
ReadValue(i, x) ==
  IF Writers(i, x) = {} THEN Genesis[x] ELSE mvcc[x][ReadVersion(i, x)]

ReadSet(tx) == {tx.sender, tx.recipient} \cup tx.reads

-----------------------------------------------------------------------------

Init ==
  /\ block \in Blocks
  /\ db = Genesis
  /\ mvcc = [x \in Items |-> [i \in TxIds |-> NoVersion]]
  /\ executed = {}
  /\ handles = {}
  /\ result = [i \in TxIds |-> NoResult]
  /\ retry = 0
  /\ status = "spawn"

(* The head of the retry loop: a thread for every transaction not executed *)
SpawnRound ==
  /\ status = "spawn"
  /\ handles' = TxIds \ executed
  /\ result' = [i \in TxIds |-> IF i \in executed THEN result[i] ELSE NoResult]
  /\ status' = "join"
  /\ UNCHANGED <<block, db, mvcc, executed, retry>>

(* What the thread of transaction i returns when it reads now.             *)
Attempt(i) ==
  LET tx == block[i]
      s  == ReadValue(i, tx.sender)
      r  == ReadValue(i, tx.recipient)
  IN  [ok     |-> CanExecute(s, tx),
       vers   |-> [x \in ReadSet(tx) |-> ReadVersion(i, x)],
       writes |-> IF CanExecute(s, tx) THEN Effects(tx, i, s, r) ELSE <<>>]

Execute(i) ==
  /\ status = "join"
  /\ i \in handles
  /\ result[i] = NoResult
  /\ result' = [result EXCEPT ![i] = Attempt(i)]
  /\ UNCHANGED <<block, db, mvcc, executed, handles, retry, status>>

(* The main thread waits for the first handle left.                        *)
Joining(i) ==
  /\ status = "join"
  /\ i \in handles
  /\ \A j \in handles : i <= j
  /\ result[i] # NoResult

MutReadsCurrent(i) == \A x \in DOMAIN result[i].vers : result[i].vers[x] = Backing
ReadsCurrent(i) ==
  \A x \in DOMAIN result[i].vers : result[i].vers[x] = ReadVersion(i, x)

(* write_account and write_storage for everything the attempt wrote        *)
MutStored(i) ==
  LET s == block[i].sender
  IN  [mvcc EXCEPT ![s] = [@ EXCEPT ![i] = result[i].writes[s]]]
Stored(i) ==
  [x \in Items |-> IF x \in DOMAIN result[i].writes
                  THEN [mvcc[x] EXCEPT ![i] = result[i].writes[x]]
                  ELSE mvcc[x]]

(* clear_writes                                                            *)
MutCleared(i) == Stored(i)
Cleared(i) == [x \in Items |-> [mvcc[x] EXCEPT ![i] = NoVersion]]

JoinCommit(i) ==
  /\ Joining(i)
  /\ result[i].ok
  /\ ReadsCurrent(i)
  /\ mvcc' = Stored(i)
  /\ executed' = executed \cup {i}
  /\ handles' = handles \ {i}
  /\ UNCHANGED <<block, db, result, retry, status>>

JoinConflict(i) ==
  /\ Joining(i)
  /\ result[i].ok
  /\ ~ReadsCurrent(i)
  /\ mvcc' = Cleared(i)
  /\ handles' = handles \ {i}
  /\ UNCHANGED <<block, db, executed, result, retry, status>>

(* A nonce or balance check failed in the thread: the call returns at once *)
(* and the threads still running are left behind.                          *)
JoinError(i) ==
  /\ Joining(i)
  /\ ~result[i].ok
  /\ status' = "failed"
  /\ UNCHANGED <<block, db, mvcc, executed, handles, result, retry>>

AllJoined == status = "join" /\ handles = {}

LastRound == retry + 1 = MaxRetries

NextRound ==
  /\ AllJoined
  /\ executed # TxIds
  /\ ~LastRound
  /\ retry' = retry + 1
  /\ status' = "spawn"
  /\ UNCHANGED <<block, db, mvcc, executed, handles, result>>

(* The last version of every item, the backing value where there is none.  *)
LastVersions ==
  LET last(x) == ReadVersion(Len(block) + 1, x)
  IN  [x \in Items |-> IF last(x) = Backing THEN db[x] ELSE mvcc[x][last(x)]]

(* "Block-STM failed to converge due to high transaction conflict density" *)
Diverge ==
  /\ AllJoined
  /\ executed # TxIds
  /\ LastRound
  /\ status' = "diverged"
  /\ UNCHANGED <<block, db, mvcc, executed, handles, result, retry>>

MutFinalize ==
  /\ AllJoined
  /\ executed = TxIds
  /\ retry # 0
  /\ db' = LastVersions
  /\ status' = "ok"
  /\ UNCHANGED <<block, mvcc, executed, handles, result, retry>>
Finalize ==
  /\ AllJoined
  /\ executed = TxIds
  /\ db' = LastVersions
  /\ status' = "ok"
  /\ UNCHANGED <<block, mvcc, executed, handles, result, retry>>

Done == status \in {"ok", "failed", "diverged"}

Main ==
  \/ SpawnRound
  \/ \E i \in TxIds : JoinCommit(i)
  \/ \E i \in TxIds : JoinConflict(i)
  \/ \E i \in TxIds : JoinError(i)
  \/ NextRound
  \/ Diverge
  \/ Finalize

Next ==
  \/ Main
  \/ \E i \in TxIds : Execute(i)

Spec == Init /\ [][Next]_vars

(* The operating system runs every thread and the main thread eventually.  *)
FairSpec ==
  /\ Spec
  /\ WF_vars(Main)
  /\ WF_vars(\E i \in TxIds : Execute(i))

-----------------------------------------------------------------------------
(* Properties                                                              *)

(* What a thread may return: a version of an earlier writer for each item  *)
(* of the read set and, when its checks passed, a value for each item of   *)
(* the write set.                                                          *)
Attempts(i) ==
  {a \in [ok : BOOLEAN, vers : [ReadSet(block[i]) -> 0..i - 1],
          writes : {<<>>} \cup [WriteSet(block[i]) -> Value]] :
     a.ok => /\ a.writes \in [WriteSet(block[i]) -> Value]
             /\ \A x \in WriteSet(block[i]) : a.writes[x] \in ValueOf(x)}

(* The shape of the state.  In the code the types of a transaction's index *)
(* and of a version number are the same; here a thread never sees a        *)
(* version of its own transaction or of a later one.                       *)
TypeOK ==
  /\ block \in Blocks
  /\ db \in Database
  /\ DOMAIN mvcc = Items
  /\ \A x \in Items : mvcc[x] \in [TxIds -> ValueOf(x) \cup {NoVersion}]
  /\ executed \subseteq TxIds
  /\ handles \subseteq TxIds \ executed
  /\ DOMAIN result = TxIds
  /\ \A i \in TxIds : result[i] # NoResult => result[i] \in Attempts(i)
  /\ retry \in 0..MaxRetries - 1
  /\ status \in {"spawn", "join", "ok", "failed", "diverged"}

(* No dirty versions: what a read can see of transaction i is exactly the  *)
(* write set of its accepted attempt, all of it or (not executed) nothing; *)
(* the versions of an attempt that failed validation are never visible.    *)
VersionsAreExecuted ==
  \A i \in TxIds, x \in Items :
    IF i \in executed /\ x \in WriteSet(block[i])
    THEN mvcc[x][i] = result[i].writes[x]
    ELSE mvcc[x][i] = NoVersion

(* The caller's database changes only when the whole block went through: a *)
(* call that fails or gives up after some transactions were executed       *)
(* leaves it as it was.                                                    *)
AllOrNothing == status # "ok" => db = Genesis

(* Each round executes at least the first transaction still pending,       *)
(* however the threads' reads interleave with the joins: its reads cannot  *)
(* be overtaken.  So after retry + 1 rounds the first retry + 1            *)
(* transactions are in.                                                    *)
FirstPendingExecutes ==
  \A i \in TxIds :
    /\ i <= retry => i \in executed
    /\ AllJoined /\ i <= retry + 1 => i \in executed

(* "failed to converge" is never reported for a block of at most           *)
(* max_retries transactions.                                               *)
DivergesOnlyWhenLong == status = "diverged" => Len(block) > MaxRetries

(* The executor implements AtomicBlock: a transaction takes effect when it *)
(* is joined and its versions are still the current ones, for what it then *)
(* stores is what it would compute if it ran alone at that moment; every   *)
(* other step of threads and rounds changes nothing a caller could tell,   *)
(* and a call that fails or gives up after some transactions were executed *)
(* leaves the caller's database as it was.                                 *)
Atomic == INSTANCE AtomicBlock WITH
            outputs <- [i \in executed |-> result[i].writes],
            phase   <- IF status \in {"spawn", "join"} THEN "running"
                       ELSE IF status = "ok" THEN "ok" ELSE "aborted"

ImplementsAtomicBlock == Atomic!Spec

(* Version validation is sound: if every transaction's recorded versions   *)
(* are the ones it would read now, the database handed back is the one     *)
(* serial execution gives, whatever ran in parallel.  And the error of the *)
(* transaction being joined is one serial execution has too, provided it   *)
(* and all before it, executed, read current versions.                     *)
CurrentReadsAreSerial ==
  LET serial == Serial(block, BlockOrder(block))
  IN  /\ status = "ok" /\ (\A i \in TxIds : ReadsCurrent(i)) =>
           serial = [ok |-> TRUE, db |-> db]
      /\ status = "failed" =>
           \A i \in handles :
             /\ result[i] # NoResult /\ ~result[i].ok
             /\ 1..(i - 1) \subseteq executed
             /\ \A j \in 1..i : ReadsCurrent(j)
             => ~serial.ok

(* The call returns: the retry loop is bounded and no thread waits for     *)
(* another.                                                                *)
CallReturns == <>Done

(* The comment on the validation: "if any read item was overwritten by a   *)
(* transaction with index < tx_idx since we read it, validation fails".    *)
(* So a block that went through has no transaction whose read was          *)
(* overwritten by an earlier one.                                          *)
OverwrittenReadsFail == status = "ok" => \A i \in TxIds : ReadsCurrent(i)

==============================================================================
