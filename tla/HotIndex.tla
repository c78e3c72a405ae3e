------------------------------- MODULE HotIndex -------------------------------
(***************************************************************************)
(* The hot transfer index of the CAIP proxy, crates/node/src/caip_rpc.rs:  *)
(* a record per native transfer under the sender's and the recipient's     *)
(* address.  Records come from two sides that run concurrently: the        *)
(* handler of eth_sendRawTransaction, once Reth accepted the transaction   *)
(* (index_from_raw_tx), and sync_hot_storage, which every intercepted read *)
(* runs first and which scans the blocks mined since the last one scanned. *)
(* Any number of these tasks interleave at their awaits and locks.         *)
(*                                                                         *)
(* Reth is the environment: it accepts transactions, mines blocks (a block *)
(* stays once mined) and may fail to answer.                               *)
(*                                                                         *)
(* A definition Mut<Name> is <Name> with a mistake one could make in that  *)
(* code; it is used nowhere and tells which property would notice.         *)
(***************************************************************************)
EXTENDS Naturals, Sequences, Lists

CONSTANTS
  Addrs,        \* account addresses other than the zero address
  Txs,          \* transactions, named by their hash
  Data,         \* what each transaction is: [from, to, kind]
  Proxied,      \* those submitted through this proxy by a registered DID
  Syncs,        \* concurrent runs of sync_hot_storage
  MaxPerAddr,   \* MAX_PER_ADDR
  TTL,          \* TTL, in ticks of the clock
  MaxBlocks,    \* bound: blocks mined
  MaxClock,     \* bound: ticks of the clock
  NoHash        \* block_hash: None

(* A plain transaction passes every filter of index_from_raw_tx, a call    *)
(* moves value but carries input, and a zero transaction moves no value.   *)
Kinds == {"plain", "call", "zero"}

ASSUME DataAssumption ==
  /\ Data \in [Txs -> [from : Addrs, to : Addrs, kind : Kinds]]
  /\ Proxied \subseteq Txs
ASSUME BoundsAssumption ==
  /\ MaxPerAddr \in Nat \ {0} /\ TTL \in Nat \ {0}
  /\ MaxBlocks \in Nat /\ MaxClock \in Nat
ASSUME HashAssumption == NoHash \notin Nat

VARIABLES
  chain,      \* the blocks mined, as Reth serves them
  accepted,   \* the transactions Reth took into its pool
  clock,      \* now_secs
  history,    \* native_history
  scanned,    \* block_number of MemoryState
  named,      \* the addresses with an entry in the registry's address_to_did
  send,       \* eth_sendRawTransaction of each proxied transaction
  sync,       \* each sync_hot_storage
  skipped,    \* blocks a sync could not fetch          (history variable)
  dropped,    \* <<a, t>>: the list of a lost t's record (history variable)
  late        \* transactions indexed from the raw form once mined (history)

env == <<chain, accepted, clock>>
index == <<history, scanned, dropped>>
vars == <<env, index, named, send, sync, skipped, late>>

Mined(t) == \E n \in DOMAIN chain : \E k \in DOMAIN chain[n] : chain[n][k] = t
Parties(t) == {Data[t].from, Data[t].to}

-----------------------------------------------------------------------------
(* add_native_transfer_record                                              *)

Fresh(r) == clock - r.born < TTL
Kept(list) == Retained(list, {i \in DOMAIN list : Fresh(list[i])})

(* A record that is there already: what the new one may overwrite.  The    *)
(* block number 1 ("0x1") counts as not known yet.                         *)
MutMerge(old, new) ==
  [old EXCEPT !.hash = IF @ = NoHash THEN new.hash ELSE @]
Merge(old, new) ==
  [old EXCEPT !.hash = IF @ = NoHash THEN new.hash ELSE @,
              !.number = IF @ = 1 \/ new.number # 1 THEN new.number ELSE @]

(* The drain: the newest MAX_PER_ADDR stay.                                *)
MutCapped(list) == SubSeq(list, 1, IF Len(list) > MaxPerAddr THEN MaxPerAddr ELSE Len(list))
Capped(list) ==
  SubSeq(list, IF Len(list) > MaxPerAddr THEN Len(list) - MaxPerAddr + 1 ELSE 1, Len(list))

MutAddTo(list, r) == Capped(Append(Kept(list), r))
AddTo(list, r) ==
  LET kept == Kept(list)
  IN  Capped(IF \E i \in DOMAIN kept : kept[i].tx = r.tx
             THEN [i \in DOMAIN kept |->
                     IF kept[i].tx = r.tx THEN Merge(kept[i], r) ELSE kept[i]]
             ELSE Append(kept, r))

Holds(list, t) == \E i \in DOMAIN list : list[i].tx = t

(* The pairs that lose a record when r is added.                           *)
Lost(r) ==
  {l \in Parties(r.tx) \X Txs :
     /\ Holds(history[l[1]], l[2])
     /\ ~Holds(history'[l[1]], l[2]) \/ ~Holds(Kept(history[l[1]]), l[2])}

(* The sender's list first, then the recipient's, under one write lock.    *)
Add(r) ==
  /\ LET once == [history EXCEPT ![Data[r.tx].from] = AddTo(@, r)]
     IN  history' = [once EXCEPT ![Data[r.tx].to] = AddTo(@, r)]
  /\ dropped' = dropped \cup Lost(r)

-----------------------------------------------------------------------------
(* The environment                                                         *)

IdleSend == [pc |-> "idle", number |-> 0, born |-> 0]
IdleSync == [pc |-> "idle", latest |-> 0, num |-> 0, todo |-> <<>>]

Init ==
  /\ chain = <<>> /\ accepted = {} /\ clock = 0
  /\ history = [a \in Addrs |-> <<>>] /\ scanned = 0
  /\ named = {Data[t].from : t \in Proxied}
  /\ send = [t \in Proxied |-> IdleSend]
  /\ sync = [s \in Syncs |-> IdleSync]
  /\ skipped = {} /\ dropped = {} /\ late = {}

(* Transactions of other nodes reach Reth without passing here.            *)
Minable == {t \in Txs : ~Mined(t) /\ (t \in accepted \/ t \notin Proxied)}

Mine ==
  /\ Len(chain) < MaxBlocks
  /\ \E b \in {<<>>} \cup {<<t>> : t \in Minable}
              \cup {<<t, u>> : t \in Minable, u \in Minable} :
       /\ Len(b) = 2 => b[1] # b[2]
       /\ chain' = Append(chain, b)
  /\ UNCHANGED <<accepted, clock, index, named, send, sync, skipped, late>>

Tick ==
  /\ clock < MaxClock
  /\ clock' = clock + 1
  /\ UNCHANGED <<chain, accepted, index, named, send, sync, skipped, late>>

-----------------------------------------------------------------------------
(* eth_sendRawTransaction, from the forward to Reth on                     *)

(* Reth takes the transaction; its answer is on the way.                   *)
Forward(t) ==
  /\ send[t].pc = "idle"
  /\ accepted' = accepted \cup {t}
  /\ send' = [send EXCEPT ![t].pc = "sent"]
  /\ UNCHANGED <<chain, clock, index, named, sync, skipped, late>>

(* The call ends without a record: the answer was lost, or was an error,   *)
(* or it came and index_from_raw_tx filters the transaction out.           *)
NotIndexed(t) ==
  /\ send[t].pc = "sent"
  /\ send' = [send EXCEPT ![t].pc = "done"]
  /\ UNCHANGED <<env, index, named, sync, skipped, late>>

(* index_from_raw_tx of a plain transfer up to the record: the recipient   *)
(* gets a placeholder DID if it has none, and the block is guessed.        *)
Guess(t) ==
  /\ send[t].pc = "sent"
  /\ Data[t].kind = "plain"
  /\ named' = named \cup {Data[t].to}
  /\ send' = [send EXCEPT ![t] = [pc |-> "guessed", number |-> scanned + 1, born |-> clock]]
  /\ UNCHANGED <<env, index, sync, skipped, late>>

(* The record enters the index and the client gets the hash.               *)
IndexRaw(t) ==
  /\ send[t].pc = "guessed"
  /\ Add([tx |-> t, number |-> send[t].number, hash |-> NoHash, born |-> send[t].born])
  /\ late' = IF Mined(t) THEN late \cup {t} ELSE late
  /\ send' = [send EXCEPT ![t] = [IdleSend EXCEPT !.pc = "indexed"]]
  /\ UNCHANGED <<env, scanned, named, sync, skipped>>

-----------------------------------------------------------------------------
(* sync_hot_storage                                                        *)

(* eth_blockNumber answered.  (When it fails the call returns unchanged.)  *)
Latest(s) ==
  /\ sync[s].pc = "idle"
  /\ sync' = [sync EXCEPT ![s].pc = "latest", ![s].latest = Len(chain)]
  /\ UNCHANGED <<env, index, named, send, skipped, late>>

(* At block n of the loop.                                                 *)
AtBlock(s, n) == [sync[s] EXCEPT !.pc = "fetch", !.num = n, !.todo = <<>>]

Compare(s) ==
  /\ sync[s].pc = "latest"
  /\ sync' = [sync EXCEPT ![s] =
                IF sync[s].latest <= scanned THEN IdleSync ELSE AtBlock(s, scanned + 1)]
  /\ UNCHANGED <<env, index, named, send, skipped, late>>

(* The next round of the loop, or its end.                                 *)
MutAdvanced(s) ==
  LET n == sync[s].num
  IN  [sync EXCEPT ![s] = IF n > sync[s].latest THEN IdleSync ELSE AtBlock(s, n + 1)]
Advanced(s) ==
  LET n == sync[s].num
  IN  [sync EXCEPT ![s] = IF n = sync[s].latest THEN IdleSync ELSE AtBlock(s, n + 1)]

Fetch(s) ==
  /\ sync[s].pc = "fetch"
  /\ sync' = [sync EXCEPT ![s].pc = "scan", ![s].todo = chain[sync[s].num]]
  /\ UNCHANGED <<env, index, named, send, skipped, late>>

(* No answer, or a null block: the block is passed over.                   *)
FetchFails(s) ==
  /\ sync[s].pc = "fetch"
  /\ skipped' = skipped \cup {sync[s].num}
  /\ sync' = Advanced(s)
  /\ UNCHANGED <<env, index, named, send, late>>

(* A JSON-RPC error object is not null: it is scanned like a block without *)
(* transactions.                                                           *)
FetchError(s) ==
  /\ sync[s].pc = "fetch"
  /\ skipped' = skipped \cup {sync[s].num}
  /\ sync' = [sync EXCEPT ![s].pc = "scan"]
  /\ UNCHANGED <<env, index, named, send, late>>

(* One transaction of the block, under a write lock of its own.            *)
Scan(s) ==
  /\ sync[s].pc = "scan"
  /\ sync[s].todo # <<>>
  /\ LET t == Head(sync[s].todo)
         n == sync[s].num
     IN  IF Data[t].kind = "zero" THEN UNCHANGED <<history, dropped>>
         ELSE Add([tx |-> t, number |-> n, hash |-> n, born |-> clock])
  /\ sync' = [sync EXCEPT ![s].todo = Tail(@)]
  /\ UNCHANGED <<env, scanned, named, send, skipped, late>>

MutSetNumber(s) ==
  /\ sync[s].pc = "scan"
  /\ sync[s].todo = <<>>
  /\ scanned' = sync[s].latest
  /\ sync' = Advanced(s)
  /\ UNCHANGED <<env, history, dropped, named, send, skipped, late>>
SetNumber(s) ==
  /\ sync[s].pc = "scan"
  /\ sync[s].todo = <<>>
  /\ scanned' = sync[s].num
  /\ sync' = Advanced(s)
  /\ UNCHANGED <<env, history, dropped, named, send, skipped, late>>

Next ==
  \/ Mine \/ Tick
  \/ \E t \in Proxied : Forward(t) \/ NotIndexed(t) \/ Guess(t) \/ IndexRaw(t)
  \/ \E s \in Syncs :
       Latest(s) \/ Compare(s) \/ Fetch(s) \/ FetchFails(s) \/ FetchError(s) \/ Scan(s) \/ SetNumber(s)

Spec == Init /\ [][Next]_vars

-----------------------------------------------------------------------------
(* What the intercepted reads answer from the index                        *)

(* inject_history_into_block: what the answer for block n has besides the  *)
(* transactions Reth put there.  For block 0 it is every record there is.  *)
Injected(n) ==
  {r \in UNION {{history[a][i] : i \in DOMAIN history[a]} : a \in Addrs} :
     /\ r.number = n \/ n = 0
     /\ n = 0 \/ \A k \in DOMAIN chain[n] : chain[n][k] # r.tx}

(* get_tx_by_hash, get_receipt_by_hash and the logs of a transaction: the  *)
(* answer is made from any one of these records.                           *)
Found(t) ==
  UNION {{history[a][i] : i \in {j \in DOMAIN history[a] : history[a][j].tx = t}} : a \in Addrs}

-----------------------------------------------------------------------------
(* Properties                                                              *)

Record == [tx : Txs, number : 1..MaxBlocks + 1, hash : 1..MaxBlocks \cup {NoHash},
           born : 0..MaxClock]

(* The shape of the state; a list is never longer than MAX_PER_ADDR.       *)
TypeOK ==
  /\ chain \in Seq(Seq(Txs)) /\ Len(chain) <= MaxBlocks
  /\ accepted \subseteq Proxied
  /\ clock \in 0..MaxClock
  /\ history \in [Addrs -> Seq(Record)]
  /\ \A a \in Addrs : Len(history[a]) <= MaxPerAddr
  /\ scanned \in 0..Len(chain)
  /\ named \subseteq Addrs
  /\ send \in [Proxied -> [pc : {"idle", "sent", "guessed", "indexed", "done"},
                          number : 0..MaxBlocks + 1, born : 0..MaxClock]]
  /\ sync \in [Syncs -> [pc : {"idle", "latest", "fetch", "scan"},
                        latest : Nat, num : Nat, todo : Seq(Txs)]]
  /\ \A s \in Syncs :
       /\ sync[s].latest <= Len(chain)
       /\ sync[s].pc \in {"fetch", "scan"} => sync[s].num \in 1..sync[s].latest
  /\ skipped \subseteq 1..Len(chain)
  /\ dropped \subseteq Addrs \X Txs
  /\ late \subseteq Proxied

(* A block named in the index holds the transaction it is named for.  The  *)
(* hash is never that of the block the transaction was guessed to end up   *)
(* in; and the number is a guess only while no sync got to the block, or   *)
(* when the raw form was indexed after the transaction had been mined: in  *)
(* every other order it gives way to the true one, the special treatment   *)
(* of number 1 included.                                                   *)
BlocksAreTrue ==
  /\ \A t \in Txs : \A r \in Found(t) :
       r.hash # NoHash =>
         r.hash \in DOMAIN chain /\ \E k \in DOMAIN chain[r.hash] : chain[r.hash][k] = t
  /\ \A n \in DOMAIN chain : \A r \in Injected(n) : r.hash = NoHash \/ r.tx \in late

(* However often a transaction is indexed, from the raw form and by        *)
(* several syncs, a list has one record of it; and a lookup by hash, which *)
(* answers from whichever list it meets first, has one answer as long as   *)
(* neither list lost the record.                                           *)
CopiesAgree ==
  /\ \A a \in Addrs : \A i, j \in DOMAIN history[a] :
       history[a][i].tx = history[a][j].tx => i = j
  /\ \A t \in Txs :
       (\A a \in Parties(t) : <<a, t>> \notin dropped) =>
         /\ \A r, q \in Found(t) : r = q
         /\ Found(t) # {} => \A a \in Parties(t) : Holds(history[a], t)

Scanned(t, n) ==
  \A a \in Parties(t) :
    <<a, t>> \in dropped \/ \E i \in DOMAIN history[a] : history[a][i].tx = t /\ history[a][i].hash = n

(* Whatever syncs run at once and in whatever order they set block_number, *)
(* even back to a smaller one: each transfer of each block up to it is in  *)
(* the index with its block, unless some sync could not fetch that block.  *)
ScannedUnlessSkipped ==
  \A n \in 1..scanned : n \notin skipped =>
    \A k \in DOMAIN chain[n] :
      Data[chain[n][k]].kind # "zero" => Scanned(chain[n][k], n)

(* Once its submission is answered, a plain transfer is in the history of  *)
(* both parties, though no block may hold it yet, and its recipient has a  *)
(* DID the record can show.                                                *)
FoundAfterSend ==
  \A t \in Proxied :
    send[t].pc = "indexed" =>
      /\ \A a \in Parties(t) : Holds(history[a], t) \/ <<a, t>> \in dropped
      /\ Data[t].to \in named
==============================================================================
