------------------------------ MODULE TrieBuilder ------------------------------
(***************************************************************************)
(* ParallelTrieBuilder of crates/consensus/src/flat_state.rs.  The deltas  *)
(* are dealt out in chunks to threads that push each leaf, under a lock,   *)
(* to the partition of its key's first nibble; once all are joined a       *)
(* second set of threads hashes one partition each, and the root is the    *)
(* hash of the sub-roots.  In the code there are 16 threads and 16         *)
(* nibbles.                                                                *)
(*                                                                         *)
(* Hashing is taken to be injective: a sub-root is what was hashed, and    *)
(* the root is the sub-roots.  A leaf is the number of the delta it was    *)
(* made from.                                                              *)
(*                                                                         *)
(* A definition Mut<Name> is <Name> with a mistake one could make in that  *)
(* code; it is used nowhere and tells which property would notice.         *)
(***************************************************************************)
EXTENDS Naturals, Sequences, Lists

CONSTANTS
  Inputs,    \* the lists of deltas a root may be asked for
  Keys,      \* derived flat keys
  Values,    \* slot values
  Nibbles,   \* the branches, 16 in the code
  Nibble,    \* the first nibble of each key
  Ways       \* the number of threads, 16 in the code

Delta == [key : Keys, value : Values]

ASSUME InputsAssumption == Inputs \subseteq Seq(Delta)
ASSUME NibbleAssumption == Nibble \in [Keys -> Nibbles]
ASSUME WaysAssumption == Ways \in Nat \ {0}

VARIABLES
  deltas,       \* deltas_vec
  pos,          \* the next delta each thread pushes
  partitions,   \* the leaves of each branch
  unhashed,     \* the branches whose thread has still to run
  subRoots,     \* sub_roots
  phase         \* "push", "hash", "done"

trieVars == <<deltas, pos, partitions, unhashed, subRoots, phase>>

DeltaIds == DOMAIN deltas
Threads == 0..Ways - 1

MutChunkSize == Len(deltas) \div Ways
ChunkSize == (Len(deltas) + Ways - 1) \div Ways

(* deltas_chunk of thread w runs from First(w) up to, not including, Stop  *)
First(w) == w * ChunkSize + 1
Stop(w) == IF First(w) + ChunkSize <= Len(deltas) THEN First(w) + ChunkSize ELSE Len(deltas) + 1
Chunk(w) == {i \in DeltaIds : First(w) <= i /\ i < Stop(w)}

NibbleOf(i) == Nibble[deltas[i].key]

-----------------------------------------------------------------------------

TrieInit ==
  /\ deltas \in Inputs
  /\ pos = [w \in Threads |-> First(w)]
  /\ partitions = [n \in Nibbles |-> <<>>]
  /\ unhashed = Nibbles
  /\ subRoots = [n \in Nibbles |-> <<>>]
  /\ phase = IF deltas = <<>> THEN "done" ELSE "push"

MutPush(w) ==
  /\ phase = "push"
  /\ pos[w] < Stop(w)
  /\ LET n == NibbleOf(pos[w])
     IN  partitions' = [partitions EXCEPT ![n] = <<pos[w]>> \o @]
  /\ pos' = [pos EXCEPT ![w] = @ + 1]
  /\ UNCHANGED <<deltas, unhashed, subRoots, phase>>
Push(w) ==
  /\ phase = "push"
  /\ pos[w] < Stop(w)
  /\ LET n == NibbleOf(pos[w])
     IN  partitions' = [partitions EXCEPT ![n] = Append(@, pos[w])]
  /\ pos' = [pos EXCEPT ![w] = @ + 1]
  /\ UNCHANGED <<deltas, unhashed, subRoots, phase>>

Joined == phase = "push" /\ \A w \in Threads : pos[w] >= Stop(w)

PushDone ==
  /\ Joined
  /\ phase' = "hash"
  /\ UNCHANGED <<deltas, pos, partitions, unhashed, subRoots>>

(* What is hashed for a branch: key and value of each leaf.                *)
MutPreimage(leaves) ==
  [k \in DOMAIN leaves |-> [key |-> deltas[leaves[k]].key, value |-> deltas[leaves[k]].key]]
Preimage(leaves) == [k \in DOMAIN leaves |-> deltas[leaves[k]]]

(* The thread keeps the lock on the partitions to its end, so the hashing  *)
(* threads run one after the other.                                        *)
HashBranch(n) ==
  /\ phase = "hash"
  /\ n \in unhashed
  /\ unhashed' = unhashed \ {n}
  /\ subRoots' = [subRoots EXCEPT ![n] = Preimage(partitions[n])]
  /\ UNCHANGED <<deltas, pos, partitions, phase>>

Finish ==
  /\ phase = "hash"
  /\ unhashed = {}
  /\ phase' = "done"
  /\ UNCHANGED <<deltas, pos, partitions, unhashed, subRoots>>

TrieNext ==
  \/ \E w \in Threads : Push(w)
  \/ PushDone
  \/ \E n \in Nibbles : HashBranch(n)
  \/ Finish

TrieSpec == TrieInit /\ [][TrieNext]_trieVars

-----------------------------------------------------------------------------
(* Properties                                                              *)

(* The shape of the state; a thread's position stays within its chunk.     *)
TrieTypeOK ==
  /\ deltas \in Inputs
  /\ DOMAIN pos = Threads
  /\ \A w \in Threads : pos[w] \in Nat /\ (pos[w] \in First(w)..Stop(w) \/ pos[w] = First(w))
  /\ partitions \in [Nibbles -> Seq(DeltaIds)]
  /\ unhashed \subseteq Nibbles
  /\ subRoots \in [Nibbles -> Seq(Delta)]
  /\ phase \in {"push", "hash", "done"}

Occurs(i) == \E k \in DOMAIN partitions[NibbleOf(i)] : partitions[NibbleOf(i)][k] = i

(* The chunks deal out every delta, and to one thread only: no leaf is in  *)
(* the trie twice, none is in a wrong branch, and none is missing once the *)
(* threads are joined, whatever the number of deltas.                      *)
EachDeltaOnce ==
  /\ \A n \in Nibbles : \A k, l \in DOMAIN partitions[n] :
       /\ NibbleOf(partitions[n][k]) = n
       /\ partitions[n][k] = partitions[n][l] => k = l
  /\ phase \in {"hash", "done"} => \A i \in DeltaIds : Occurs(i)

(* Two deltas of one chunk keep their order in the partition: of two       *)
(* writes of one key made by one thread the later one comes last.          *)
ChunkOrderKept ==
  \A n \in Nibbles : \A k, l \in DOMAIN partitions[n] : \A w \in Threads :
    k < l /\ {partitions[n][k], partitions[n][l]} \subseteq Chunk(w) =>
      partitions[n][k] < partitions[n][l]

(* The leaves of a branch in the order of the deltas.                      *)
InOrder(n) == Retained([i \in DeltaIds |-> i], {i \in DeltaIds : NibbleOf(i) = n})

(* The root is the one a single thread would give whenever no branch gets  *)
(* leaves from two chunks.                                                 *)
RootOfOneChunkPerBranch ==
  phase = "done" =>
    \A n \in Nibbles :
      (\E w \in Threads : \A i \in DeltaIds : NibbleOf(i) = n => i \in Chunk(w)) =>
        subRoots[n] = Preimage(InOrder(n))
=============================================================================
