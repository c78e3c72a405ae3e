# A TLA+ model of sovereign_bunny_node

The repository is a Rust workspace around a Reth node: a consensus library
(`crates/consensus`), identity, network, cryptography and attestation libraries,
and the node itself (`crates/node`), which starts Reth, opens a CAIP proxy in
front of its RPC port and follows its notifications. Most of the consensus
library is called by tests only so far; it is modelled as the library it is,
with its callers left free to call in any order.

Paths below are relative to the repository, `crates/consensus/src` unless they
say otherwise. `PROJECT.json` gives, for each definition, the lines it stands for.

## 1. Inventory

| Component | State | Operations | Interacts with |
|---|---|---|---|
| Block-STM executor, `parallel.rs` `PevmExecutor` | multi-version state, set of executed transactions, retry counter, caller's database | execute a block: rounds of threads, join, validate, retry, finalise | threads share one lock; caller's `WitnessDatabase` |
| Wave executors, `parallel.rs` `WaveExecutor`, `GrevmExecutor` | waves, snapshot, caller's database | partition by access list, run a wave, apply it | threads over a snapshot |
| Trie builder, `flat_state.rs` | 16 locked partitions, sub-roots | build a root from a list of deltas | two generations of threads |
| Hot index, `node/src/caip_rpc.rs` | transfer records per address, last scanned block, placeholders | sync from Reth, index a raw transaction, answer reads | any number of HTTP handlers, Reth over HTTP, the registry |
| Saga actor, `actor.rs` | state, creation time | prepare, commit, roll back, process an attestation (with or without a committee), evaluate the timeout | committee, live configuration |
| Committee, `sync_committee.rs`, `subset_election.rs` | members, signatures of an intent | elect, collect, verify | registry, live configuration |
| Router, `bgp.rs`, `hw_offload.rs` | routing table, hardware table, tunnels | update, speculate, remove, synchronise the peers | data plane, registry, pre-flight |
| Pre-flight, `stateless.rs` | balance of a witness | check and charge | router, pool |
| Witness database and block validation, `stateless.rs` | accounts, storage, code; no state of its own while a block is validated | verify a witness, validate a block | executors; live configuration and registry, each under its own lock |
| Pool, `pool.rs` | sequence numbers by transaction | validate, order first come first served | live configuration, Reth's pool and ordinary validation |
| Registry, `registry.rs` | DID and address maps, validators, profiles, keys | register, look up under many key forms, list peers and orchestrators | proxy, pool, router, committee |
| Names, `identity/src/namespace.rs` | owner of a name, names and stake of a DID | register, displace by score | none yet |
| Slashing, `slashing.rs` | merit ranks, which nothing fills | punish, decay | registry |
| Mesh, `based_mesh.rs`, `bgp.rs` | packets with binding and commitment | make, encode as a blob, send, receive, verify | router's tunnels, configuration, archival |
| Archival, `archival.rs` | pinned contents, identifiers by manifold | pin and register, recover | mesh |
| Re-anchoring, `reanchor.rs` | filter of changed addresses and slots | record a mutation, re-anchor a witness | stateless validation |
| Configuration, `config.rs`, `node/src/config.rs`, `node/src/main.rs` | static and dynamic values | merge file, arguments and variables at start; read while operations run | nearly all |
| Cryptography, KZG, NMT, attestation, zero-knowledge authentication, DID documents, transport | keys and proofs | pure calls | all |

What is hard here is not spread evenly. Three components run real threads over
shared state (the two families of executors and the trie builder); the hot
index interleaves HTTP handlers at their awaits; the saga reads configuration
and registry under separate locks around an await, and meets repeated and late
packets; the router keeps two tables of which the hardware is read at any time.
The proxy's handlers also share the registry, with awaits between their checks
and what they do; the pool's validator has an await between reading the policy
and the verdict, and block validation takes a lock per signature. The rest is
sequential code whose difficulty lies in long sequences of calls (registry,
names, pool order) or at numeric edges (mesh, pre-flight).
`PROJECT.json` lists the hazards at their lines.

What makes each of them correct:

- executors: each transaction sees a state there was, and the block means what
  serial execution means; a failed call leaves the database alone; it returns, and with a result whenever the retry budget
  covers the block;
- trie builder: every delta is in the root once, and the root is a function of
  the deltas;
- hot index: one truthful record per transfer, no block forgotten;
- saga: no state skipped, no advance without a quorum, no early rollback;
- router: the hardware forwards what the table says; nobody is admitted who
  cannot pay what was announced, as long as that is a number the code can hold,
  and nobody pays more than announced;
- registry, names: one identity per address and one owner per name after any
  sequence of calls, whichever key form is used;
- pool and block validation: whatever is let in holds its sender's key, in a
  scheme the policy allows, and, where that scheme is verified, a signature of
  the sender over what came in; a verdict is one a single moment would give;
  first come is first served;
- mesh, archival: a packet arrives as it was made or is refused for a reason, a
  commitment stands for one packet, nothing cut is taken or archived as a packet.

## 2. Plan

The order is by what is concurrent and by how much damage a fault would do.

1. `TxModel`, `BlockStm` (done): transactions, serial execution as the reference;
   the optimistic executor against it.
2. `WaveExec` (done): the partitioner and the waves, against the same reference.
3. `HotIndex` (done): concurrent syncs and raw transactions over a growing chain.
4. `TrieBuilder` (done).
5. `Saga` (done): actors and committee in one module, since a vote borrows both.
6. `Routing` (done): router, hardware and pre-flight in one module for the same
   reason.
7. `Membership` (done): the registry's maps under registration, placeholder
   insertion and look-up by every form of a DID, with the proxy's handlers.
8. `Mesh` (done): packets, blobs, crypto profiles and archival.
9. `AtomicBlock` (done): the abstract specification of an executor, and the step
   of `BlockStm` to it, in place of an invariant that said only that a failed
   call leaves the database alone.
10. `Signatures`, `Admission` (done): schemes and envelopes; the pool's validator
    and order, witnesses and block validation under a policy that changes.
11. `Names` (done): names displaced by score.

Slashing and re-anchoring were meant to join `Names` and do not: section 6 says
why.

The proofs follow each module: type correctness first, then the invariant the
module exists for. Runs are kept at one per question, and a property that
follows from others is a theorem and not a run: `DivergesOnlyWhenLong` (from
`FirstPendingExecutes`), `AllOrNothing` (from `ImplementsAtomicBlock`),
`QuorumsMeet` (from `VotedByQuorum`), `ChunkOrderKept`.

## 3. The modules and the code

Every module whose name has no prefix or suffix models code; `MC*` gives it
small constants, `*_proofs` holds theorems (section 5 has their list). `Lists` has
one operator, what is left of a list when some of its elements are retained, in a
form proofs can be about; `TrieBuilder`, `Routing` and `Names` prefix the names of
their specification (`TrieSpec`, `RouterSpec`, `NamesSpec`), since each is
extended together with another module where its theorems are proved. Definitions named `Mut...` are
plausible mistakes; nothing uses them; replacing the definition of the same name
by one makes a property fail, which shows that the property depends on that code.

### TxModel, BlockStm (`parallel.rs` 6-30, 250-477)

A database is one function on accounts and (address, slot) pairs, as the
executor treats its two maps alike. A slot holds the number of its writer,
because the code writes `slot + tx_index + 1`. Sums stay far from 2^256.
`Debit` and `Credit` follow the thread: both accounts are computed from what was
read, and the recipient's is stored last, so a transfer to oneself credits
without debiting and leaves the nonce; this is what serial execution does in
the model too.

`SpawnRound` is the head of the retry loop. `Execute(i)` is the thread of
transaction i: everything it reads it reads under one lock, so it is one step,
and it may happen before, between and after the joins of earlier transactions.
`JoinCommit`, `JoinConflict` and `JoinError` are the main thread's three ways
with a joined thread, in block order. `NextRound`, `Diverge` and `Finalize` end
a round. Transactions are numbered by their position from 1, version 0 is the
backing database.

### AtomicBlock (`parallel.rs`, what the executors promise)

No threads, rounds or versions: a transaction takes effect in one step
(`TakeEffect`) as a function of what the ones before it in the block have written
by then, the database changes in one step (`Finish`), or the call is given up
(`Abort`). `BlockStm` implements it (`Atomic`): what took effect are the writes
of the executed transactions, and the moment is the join. It does not promise
serial results: a transaction may take effect before an earlier one, which
`block_stm_stale` shows to happen.

### WaveExec (`parallel.rs` 67-221)

`Take`, `Skip`, `NextWave` and `Partitioned` are the partitioner's nested loop,
one transaction per step; `StartWave`, `Execute`, `WaveFails`, `WaveDone` and
`Return` the waves. The order of the waves differs from block order, so the
reference is serial execution wave by wave, and within a wave in any order
(`WaveByWave`). Transactions are numbered by
position, as the tests number them: with two equal `tx_index` the partitioner
would count fewer processed than it has and not end.
`GrevmExecutor` takes the same steps; the trace it keeps besides is only counted
for the log.

### HotIndex (`node/src/caip_rpc.rs`: `MemoryState`, the raw transaction path, `sync_hot_storage`, what reads inject)

`Forward`, `NotIndexed`, `Guess`, `IndexRaw` are the handler of
`eth_sendRawTransaction` from the forward on, cut at its awaits and locks;
`Latest` to `SetNumber` are `sync_hot_storage`, cut likewise. Each intercepted
read starts a sync, so the model runs `Syncs` of them forever. Reth is the
environment: it accepts, mines and sometimes does not answer (`FetchFails`) or
answers with an error object (`FetchError`), which the code scans like an empty
block. `Merge`, `Capped` and `AddTo` are `add_native_transfer_record`, with the
special meaning of block number 1. `skipped`, `dropped` and `late` are history.
Not modelled: a reorganisation (the code has no reaction to one), the filters on
chain id and format, the JSON of answers. The index leaves out transactions
with input that come raw, and takes them from blocks; `kind` is there for that.

### TrieBuilder (`flat_state.rs` 58-158)

`Push(w)` is one delta of a thread's chunk, `HashBranch(n)` a hashing thread,
which holds the lock to its end. Hashes are taken as injective, so a sub-root is
what was hashed.

### Saga (`actor.rs`, `sync_committee.rs`, `subset_election.rs`)

`Process(a)` delivers the one packet of a saga to any actor, any number of
times. A vote is `BeginVote` (the threshold is read), then `EndVote` (the
registry is locked, signatures are counted and the actor advances) or
`DropVote` (the caller drops the future, or it fails); between them the
configuration (`Reload`), the registry (`Register`) and the clock move.
Signatures are members of `Ballots`: by whom, and whether they verify. The code
computes the quorum as the ceiling of a floating-point product; the model uses
whole percents. `get_eligible_orchestrators` answers with any of `Pools`: the
lists it is computed from have no writer outside tests.

### Routing (`bgp.rs`, `hw_offload.rs`, `stateless.rs` 154-220)

A speculative route is two steps, because the data plane reads the hardware
table between the push and the verdict: `Speculate`, then `Accept` or `Refuse`,
which charge the caller as `pre_flight_execute` does. The driver's push never
fails, as in the repository's mock.

Amounts are words, as the code's U256. `Announced` is the sum of penalty,
execution and bandwidth as numbers, `Required` what the code compares with the
balance, that sum wrapped around `Word` (to wrap once, after the product and each
sum, or at the end gives the same). The code does not bound price and value, so
the sum can come out small: the check then passes for less than what was
announced, and the two deductions may wrap the balance in turn. The doc of the
error (`stateless.rs:138`, "User cannot cover upfront penalty + EVM execution cost")
therefore holds where the sum is below the word, which is what
`ExecutionCovered` supposes; beyond it, the property still says that nobody
else's balance changes.

`revoked` is history: a refused replacement removes the hardware entry of a
route the table still has, and the invariant names exactly those destinations.

### Membership (`registry.rs`, `node/src/caip_rpc.rs` where it reads and writes it)

The registry is the three maps identities need. A DID is a record of its form,
what it names and a chain id; `Normal` rewrites the two forms that
`normalize_query_did` rewrites, and the four look-ups follow the code's order of
attempts. `RegisterDid(h, signer)` is `sovereign_registerDid`, one step under
the write lock; `Authorize`, `NotIndexed` and `Placeholder` are the handler of
`eth_sendRawTransaction`, cut where it awaits Reth; `StoreChain` and
`UpdateChain` are the background task that corrects the chain id, in the proxy
and then in the registry. What the placeholder's handler does next is in
`HotIndex`.

- Stale or badly signed requests change nothing and are not shown, nor are
  documents of other formats than `did:peer:4`: they have no secp256k1 key, so
  no signature verifies for them.
- Look-up by key goes through a hash map in no fixed order: with a key in two
  documents any of the two owners is an answer.
- A placeholder is stored under a DID that no look-up reaches (its last part
  lacks 0x and is rewritten), so `sovereign_getDidByAddress` says "registered"
  with a null address for it, and its zero key stays behind when the owner
  registers, read by nobody. `PlaceholderInert` says that this is harmless.
- `validators`, `supported_manifolds`, `reputation` and `commitments` have no
  writer outside tests.

### Mesh (`based_mesh.rs`, `bgp.rs` 228-290, `archival.rs` 115-253, the profiles of `crypto/src/lib.rs`)

A packet is a head, its KZG fields and a payload; of the payload only the size
and the bytes that a blob can lose matter, so it is a short sequence, and the
head counts as `HeadBytes`. `BlobOf` is `to_eip4844_blob_bytes` and leaves out
what the loop over the field elements 1 to 4095 does not reach; `Decodes` and
`Decoded` are the way back. A commitment is the blob it is computed from, a
binding the hash function and what was hashed. `Emit(n, d, s, x)` is
`from_message`, `Broadcast` and `SendBlob` the two forms a packet is sent in,
`Accept` and `Refuse` the two outcomes of `receive_based_mesh_packet`.
`Pin` and `Register` are `archive_based_mesh_packet`, cut between its two locks,
`PinWitness` and `Register` likewise `archive_account_witness`, which lists under
the same manifold contents that are no packets (`Witnesses`): `recover_packet`
of such an identifier fails, as the decoding does. Nothing else writes there:
`recover_packet` and `resolve_account_witness` read, and the proxy's method makes a
daemon of its own for each call (`node/src/caip_rpc.rs:603`). `Restart` reads the configuration anew and forgets what was in memory: the
backend is the one of the repository that keeps contents in memory.

- The profile is configured per node and written at start-up only, so it
  changes by restarts; packets on the wire outlast them.
- `SendBlob` has no caller in the repository; that blobs are sent follows from
  the branch of the receiver that decodes them.
- A tunnel carries bytes, loses and reorders them. What the WireGuard library
  itself does with contents that do not begin like an IP packet, or that exceed
  the send buffer (131,072 bytes and 2048), is not in the repository and not in
  the model.
- The proof bodies are taken as long enough and not the one the code refuses by
  name: only who bound them to which state difference is shown.

### Signatures, Admission (`crypto/src/lib.rs`, `pool.rs`, `stateless.rs` 288-414, `node/src/main.rs` 190-237, `config.rs`)

`Signatures` has the tables of schemes, profiles and bytes as they are in the
code, and what packing, unpacking, verifying and deriving an address do to a
signature. An envelope is any bytes: a scheme byte, a key and a signature that
need not go together. A key is told by the pair it belongs to, or none, and its
length, a signature by the pair that made it, or none, by what was signed, and
its length. Three things follow from `verify_signature` as it is.

- For five schemes (`Structural`: Secp256r1, Pasta, BabyJubjub, BLS, XMSS) it
  compares lengths and nothing else. An envelope of such a scheme passes for any
  key of that length, its owner having signed or not, also for a key of another
  scheme under this one's byte: the address is derived from the key's bytes with
  a hash that several schemes share. Of these only XMSS counts as post-quantum, so the
  others pass only while the trigger is off.
- For the other six the key has to be one of the scheme's and the signature one of
  it over the message; that nobody else can make such a signature is assumed of them.
- Of an Edwards key the first 32 bytes are taken (`Panics`): what follows them
  goes into the address only, and a shorter key ends the call in a panic, which in
  the release build ends the node (`Cargo.toml:96`).

In `Admission`, `Started` is the merge of file, arguments and variables that
`main` does, `Restart` a new process, `Reload` an exchange of the live
configuration. Calldata, witnesses and the signatures of blocks are `AnyBytes`.
`Submit`, `Admit` and `Leave` are a transaction's way through the
pool: the validator reads the policy (`Reading`) and checks the envelope in one
step (`MayEnter`), the ordinary validation is awaited, and at `Admit` the
ordering is asked for a priority (`Number`). `Begin` is `validate_implicit_state_block`
up to its loop, `CheckSignature` one turn of it, with its four outcomes
(`Outcome`); between the turns validators are
added and the configuration changes.

- Nothing in the program outside tests exchanges the configuration or adds
  validators; the shared lock and its documentation ("hot-reloadable") are there for
  it. Both are left free to happen at any time.
- Names of schemes and profiles are taken in lower case.
- A transaction whose envelope is in its own calldata can sign its own hash only
  in a mock: the hash covers the calldata. The validator is generic in the type of
  transactions, so the model has one as in the validator's test, and one
  that cannot. For Ethereum transactions this means that with the trigger on
  nothing signed with a scheme that is really verified enters.
- The order is that of admission, as the priority is asked for when a transaction
  becomes executable; of two submitted at once the one whose ordinary validation
  answers first is first.
- A configuration file that cannot be read is logged and the node starts with the
  defaults, the trigger off (`Loaded`).
- `validate_witness` goes by the default profile and does not know the height
  from which another one is in force; `ActiveProfile` does. The height itself is
  not part of what validators sign.

### Names (`identity/src/namespace.rs`)

`RegisterName` has the two outcomes that change something, `Enter` their writes;
`did_names` are the lists of the code, in their order. Scores are exact
fractions, in hundredths; the code's floating point may decide near-ties
differently. The reputation of an owner is 1, as in the code. `Power` is a
recursive function in place of `^`, of which the provers know nothing.

- With three names an owner is already penalised when one of them is contested,
  since the penalty counts the names held: "First 3 names (1 main, 2 secondary)
  incur no penalty" (line 27) is true of claiming them. `FewNamesKept` is about
  owners of at most two.
- There is one stake per DID: a later claim replaces it, with zero as well, for all
  names of the DID, and an evicted owner keeps its own on the books ("returned
  (mocked)", line 59).

## 4. The runs

| Run | Instance | States | Shows |
|---|---|---|---|
| `block_stm` | all blocks of up to 4 out of 7 transactions, and 4 on one account; 3 rounds | all interleavings | see below |
| `block_stm_stale` | blocks of up to 3 | to the first violation | a stale read survives |
| `wave_exec` | all blocks of up to 5 of 5 declared, up to 2 of 3 undeclared | all interleavings of threads | see below |
| `hot_index` | 3 transactions (1 through the proxy), 2 addresses, 2 syncs, 2 blocks, lists of 2, lifetime 1 | all | see below |
| `trie_builder` | all lists of up to 6 deltas, 3 threads, 2 branches, 3 keys | all | see below |
| `saga` | 2 actors, 3 members (one signs badly, one without post-quantum key), 2 epochs, 2 thresholds, 2 windows, clock to 2 | about 3 million | see below |
| `membership` | 3 addresses, 4 documents (two of one address, one incomplete, a key shared), 4 transactions, 2 chain ids | 4784 | see below |
| `membership_hash` | the same | to the first violation | one form of a DID is never found |
| `mesh` | 2 nodes, one with an archive thread, 3 profiles, 1 scheme, 1 witness, 6 payloads around the capacity of 3 field elements; 2 packets made, 1 on the wire, lists of 1 | 741,408 | see below |
| `admission` | 2 transactions, 13 blocks of up to 2 signatures, 4 validators, 2 ways to start, 2 configurations to reload | 1,964,914 | see below |
| `names` | 3 DIDs, 5 names, 3 reputations, 3 stakes; DIDs and names symmetric, as no claim tells them apart but by what they have | 299 up to symmetry | see below |
| `routing` | 2 destinations, 2 routes, 2 callers (one poor), 1 peer, 6 requests (two of them beyond the word of 24) | 1,521,120 up to symmetry of destinations and routes | see below |

`block_stm`. `VersionsAreExecuted`: the versions other threads see are exactly
those of accepted attempts. `FirstPendingExecutes`: each round takes in the
first pending transaction, so that a block of at most as many transactions as
rounds never diverges. `ImplementsAtomicBlock`: whatever the threads read and
when, each transaction takes effect at one moment, on what is there at that
moment, and the caller's database is changed at the end or not at all.
`CurrentReadsAreSerial`: if every recorded version is current at the end, the
result is the serial one, and likewise for errors. `CallReturns`: it ends.
The first conjunct of `CurrentReadsAreSerial` is needed: `block_stm_stale` shows
a block that goes through with a transaction whose read was overwritten, since
a transaction is validated when it is joined and never again, although one
before it may be re-executed in the next round. Three rounds are enough for
that and for divergence; four transactions give chains longer than the rounds.

`wave_exec`. `WavesSound` says what the partitioner promises, for any access
lists: no conflict within a wave, and no transaction kept back without one. `AppliedWavesAreSerial` holds when lists name
the accounts of the transfer, for every order of the transactions within each
wave, and at every wave, so also for what a failing call
leaves behind (this executor, unlike the other, stores finished waves before a
later one fails). Lists that leave the accounts out, as those of the
repository's tests do, are outside it and in the instance: two transactions of
one wave may then write one account, of which the comment at `parallel.rs:207`
takes no notice, and the first result is lost.

`hot_index`. Concurrent syncs may set `block_number` in any order, even
backwards; `ScannedUnlessSkipped` says nothing up to it is missing except blocks
some sync could not fetch. Those are never fetched again, although the comment
at `caip_rpc.rs:49` calls `block_number` the highest block "fully scanned".
`CopiesAgree`: a record is unique in a list and the same under both addresses.
`BlocksAreTrue`: a record names the block its transaction is in, and is shown in
a wrong one only while unscanned or when the raw form was indexed after mining.
`FoundAfterSend`: an answered submission is in both histories. Three
transactions make the list of one address overflow, one tick lets records
expire, two blocks let number 1, which also means unknown, be met and passed.

`trie_builder`. `EachDeltaOnce` covers the lengths at which chunks are short or
empty (six deltas, three threads gives every remainder).
`RootOfOneChunkPerBranch` states where the root is determined by the deltas. It
is not where two chunks write to one branch: the leaves are hashed in the order
the threads appended them, so that what `flat_state.rs:61` calls "the Merkle root
of the flat state" depends on the schedule.

`saga`. `VotedByQuorum`: each voted advance rests on enough
members with valid signatures under the threshold read at its start. `StateMachine`: no schedule skips or leaves a final state.
`RolledBackLate`: no rollback before the shortest window in force since the
actor exists has passed; the window is read from the live configuration, so the
window at creation would be too strong.

`routing`. `HardwareFollowsTable` as above; `ExecutionCovered`: an accepted
caller can still pay for the execution after the deductions and a refused one
loses at most the fine, if what was announced is below the word; in no case does
another's balance change. `RouterTypeOK` has every balance a word. The poor caller can
pay for one modest request and not for two, so acceptance, refusal for money and
refusal for frozen state all occur. Of the two requests beyond the word one comes
out as nothing, which anybody can pay, and one as less than its own penalty and
bandwidth, so that the deductions wrap as well.

`membership`. `FormsResolve`: a registered identity is found, with its address
and as fully registered, under each form of its DID and each key, whatever chain
id it was registered under; the one exception is the form with the hash, which
the repository's test asks for and `membership_hash` refutes. `PlaceholderInert`:
an address without identity never counts as registered. `RegistrationFinal`:
identities are never replaced. `AuthorizationLasts`: what a transaction was let
through for still holds when the answer of Reth is used. Two documents of one
address meet in the duplicate check, a key shared between two addresses makes
look-ups ambiguous, and four transactions allow a payment to an address before
and after it registers, under both chain ids.

`mesh`. `RefusedForAReason`: whatever is on the wire will be accepted, unless
maker and receiver hash differently, the receiver's curve does not go with the
proof scheme, or the packet is too large. The two bounds in it differ: sent raw,
a packet may have the whole capacity of a blob, but as a blob one field element
less. From 126,946 to 126,976 bytes `to_eip4844_blob_bytes` succeeds and leaves
out the last bytes, the blob does not decode, and the commitment is that of the
beginning only; `CommitmentIdentifies` has the same exception. Payloads of the
last size that fits, of one that is cut, of one without a blob and of the very
size of a blob, the first two of them in pairs alike up to the last byte, are
the cases there are; the three profiles differ in the hash, in the curve, or in
both. `WholePackets`: what a node accepted, and what is archived beside the
witnesses, is a packet that was made, to the last byte. A receiver recomputes the
KZG fields from what came and they fit whatever that is, so only the length that
the payload is encoded with notices that a blob has lost bytes. One message on
the wire is enough as messages do not act on one another, a list of one because
each of its entries is checked by itself, and one archive thread because a packet
is archived as it is held.

`admission`. `FirstComeFirst`: priorities fall in the order of first admission
since the start, also for a transaction that left and came back. `SenderVouched`:
what entered under the trigger carries an envelope of the scheme configured when
its check began, which stands for the sender: the sender's address is that of the
key in it, and the key's holder signed the transaction, or the scheme is XMSS,
where lengths are all that is looked at. A witness is found valid only
if it stands for sender and transaction in this sense under the present configuration. It is not claimed
that what is in the pool satisfies the present configuration: a reload does not
look at it again, although `config.rs:96` speaks of a "Toggle to instantly
mandate" post-quantum schemes. `VerdictIsDeserved`: although each signer is looked up under a
lock of its own, each signature of an accepted block stands for a validator and for this
root and diff, and those of a refused one did not all do so when the call began, under one
policy. Profiles restrict only
signatures of 65 bytes; the comment in the test at `stateless.rs:509` says "only PQ
allowed" of a profile under which an Edwards envelope passes too. Two
transactions are enough for an order to be reversed and two signatures for a
registration to come between; the blocks include the two heights around a
switch, an unsigned block, an empty one, a signature over something else, an Edwards key
too short and one too long, and a validator's key with nothing in the place of a
signature, under its own scheme's byte and under that of a scheme only looked at
for lengths.

`names`. `OneOwner`: the lists that scores are computed from are those of the
registry. `FewNamesKept`: an owner of one or two names loses one only to a higher
offer, and to a holder of three or more without stake only to a reputation ten
times as high. Five names let one DID hold a fifth against two others, the three
reputations tie with an owner, beat it, and beat it after division by ten; stakes
outweigh each.

### Fairness

`BlockStm` and `WaveExec` have a `FairSpec`: weak fairness of the
main thread and of the threads together, which is what an operating system that
runs every runnable thread gives; no thread in them waits for another, and the
lock is held within single steps. `HotIndex` has no liveness property: a sync
that fails is not repeated by the code, and whether another read comes is the
client's choice. `Saga` has none since nothing schedules `evaluate_timeout`,
`Routing` and `Names` none since each operation is a single call, `Admission`
none since what answers the validator is Reth's and the validation of a block is
a plain loop, `Membership` none since
whether anybody registers is the clients' choice, `Mesh` none since nothing is
sent again, and `TrieBuilder` none since its threads plainly end. Deadlock is not checked
where a call ends or a bounded environment runs out, and is checked in `saga`.

## 5. The proofs

All are over arbitrary constants, under the assumptions named in the modules
(accounts and slots are disjoint, a block is a sequence of transactions,
at least one round and one thread, thresholds of at least one percent, sizes and
funds natural numbers, finitely many members). Every safety property of every
passing run is a theorem. Two modules of theorems belong to more than one
component, those whose proofs rest on the same lemmas.

- `TxModel_proofs` has what the two executors share. Recursive definitions are
  functions on the numbers up to a length (`SerialRun`); that such a function
  exists and unfolds (`RunExists`, `SerialRunDef`) is shown from the least number
  for which it would not, since the library's induction theorems cannot be used.
  `SerialPrefix` and `SerialStaysFailed` relate the run of an order to that of its
  beginning.
- `BlockStm_proofs`. `TypeCorrect`; `NoDirtyVersions` by induction with it, since
  a join stores or clears exactly one transaction's versions; `Atomicity`;
  `RoundProgress` from `FirstPendingFresh`, which says that the first pending
  transaction's attempt in this round read nothing that a join can still change,
  as all writers before it are executed; `Convergence` from that.
  `Implementation` is the refinement: `AttemptsHold` says that an attempt is what
  the transaction does on the values its recorded versions hold, and that these
  versions still hold them; a join compares versions only, and with
  `FoundIsRead` this makes equal versions equal values.
  `SerialResult`: as long as all reads up to i are current, the value i finds for
  an item is that of the serial run after i - 1 transactions (`SerialSoFar`, by the
  least i for which it is not; `NextReadValue` is the step on the side of the
  versions, `CurrentIsSerialStep` puts the two together); at the end
  the database is overlaid with the same values (`OkIsFinal`), and a failing
  attempt fails in the serial run.
- `WaveExec_proofs`. `ConflictFree`, `GreedyWaves` and both together,
  `SoundWaves`, from `PartInv`: what was
  passed over in this scan conflicts with an earlier member, and each wave has
  a transaction that can still fill it while it is empty. `TypeCorrect` adds
  `ExecInv`, that results are attempts on the snapshot. `SerialWaves` is from
  `WaveInv`, the property itself for the waves already applied. An order that
  goes wave by wave is one of the earlier waves followed by the members of the
  last. These write apart from what the others read and write (`WriteApart`), so
  each finds in the serial run what the snapshot had, in whatever place it comes
  (`WaveRun`), and applying all results at once gives the same database
  (`WaveIsSerial`).
- `Storage_proofs` is about what is stored in lists. `RetainedFrom` says that
  `Retained` is a selection in order of all retained places.
  - Hot index. `HotInv` is the type invariant and eight parts. A transaction is in
    one block (`OneBlock`); what a sync still has to scan is of the block it
    fetched (`TodoOfBlock`); a guessed number is at most the next one
    (`GuessesAhead`), so a record without hash has a number at most that of the
    block its transaction gets into and a record with hash has exactly it, unless
    the guess was recorded late (`RecordsTrue`, which holds because `Merge` never
    takes a true number back). A list has one record of a transaction (`Distinct`)
    and unless one of its lists lost it all are equal (`Agree`, as `Add` merges the same
    record into equal ones). Behind `block_number`, and behind the block each sync
    is at, all is recorded that was not passed over or lost by a list, and in the
    block it scans all but what it still has to do (`Progress`). An answered submission is in both lists (`Answered`).
    `TrueBlocks`, `OneAnswer`, `NothingMissed` and `FoundOnceAnswered` are what
    reads see of this. The two lists are written one after the other and are one
    list when a transfer is to oneself: `AddedTwice` shows that adding twice is
    adding once.
  - Trie builder. Arithmetic lemmas first (`ChunkBounds`, `ChunkDisjoint`,
    `ChunkCover`: ceiling division deals every index to one thread); then
    `TrieInv`, which ties a leaf in a partition to the position of the thread that
    pushed it. `TrieTypeCorrect`, `EveryDeltaOnce`, `OrderInChunk` are its parts.
    `SingleChunkRoot`: with one chunk for a branch its leaves are increasing, they
    have the elements of the ordered list (`InOrderFacts`), and increasing
    sequences with the same elements are equal (`IncreasingUnique`).
  - Names. `NamesInv` says that each list is one of distinct names, those the
    registry gives its DID; `OneOwnerAlways` is part of it. A list is then as long
    as its set is large (`ListLength`, a bijection), which gives the slots, and
    `FewNamesSafe` is the arithmetic of the penalty (`PowerBounds`,
    `PenaltyOnlyTakes`).
- `Registry_proofs` is about what is kept of others, identities and routes.
  - Identities. `TypeCorrect`, `FinalRegistration`,
    `LastingAuthorization` and `PlaceholdersHarmless` from one `IInv`: zero keys
    are those of placeholders (`KindsOfEntries`), an entry for a document or an
    address means that its identity is the primary one (`EntriesOfPrimary`), whose
    own entry is set (`PrimaryIsSet`), and a document found anywhere is found under
    its own DID (`DocsKept`, which keeps look-ups by key alive when an entry of an
    address is overwritten). `FullyStays` then goes through the three ways a
    look-up succeeds. `EveryFormResolves` needs two parts more (`FormsInv`): a
    document stored anywhere is of a primary identity (`DocsOfPrimary`), and a
    primary identity has its entries under each form it was registered with
    (`PrimaryHasDocs`).
  - Routes. `RouterInv` is type and tables together, since an accepted route
    is written to the table from `pending` while the hardware has it already.
    `RouterTypeCorrect` has every balance a word for any funds, requests and fine,
    sums beyond the word included; `Offload`; `Covered` is an action property
    from the same invariant: below the word the sum is compared as it is
    and so the deductions do not wrap either.
- `Saga_proofs`. `TypeCorrect`, `NoStateSkipped`, `Quorate` (registered members
  and signatures only grow, so a vote stays justified); `CommonVoter` from
  `Quorate` and `Pigeonhole`, a counting lemma on finite sets; `NoEarlyRollback`
  with the bound that the recorded shortest window is at most the present one.
- `Mesh_proofs`. `RoundTrip` and `SmallDecodes` first, for any sizes: a blob that
  decodes gives its packet with the commitment of the blob, and it decodes when
  the packet fits the elements after the first. `IInv` adds to the types that
  everything held, sent and archived, but for the witnesses, is one of the
  packets made, unaltered (`FromEmitted`, since decoding gives back what was
  encoded). `Delivery`, `Commitment` and `Integrity` follow from it.
- `Admission_proofs`. Calldata, witnesses and the signatures of blocks are any
  bytes, so the first lemmas say what the code's checks leave of them: `RoundTrip`
  of the two byte tables, `VerifiedStands` and `StandingVerifies` (an envelope is
  found valid just when it stands for the address derived from its key),
  `EndorsedStands` and `StandingEndorses` (the same of a turn of block
  validation). `Places` says that a number is a place in the order of arrival,
  from which `FirstCome`; `Admitted` that what is not outside passed the check
  under what its check read, from which `Vouching`; `CallInv` that the signatures
  passed so far are endorsed by the validators there are now, which stays so since
  validators are only added (`CallElse`), and that a refused block did not deserve
  better when the call began, from which `Verdict`. `StartedTyped` is what the
  merge at start gives, so `TypeCorrect` does not assume it. Assumed is, of the
  schemes that are verified in earnest, that a signature is recognised as the one of its
  pair over its message, and that nobody has the key of the address a misplaced
  signature recovers to.

Only model-checked: that the executors return (`CallReturns`, liveness under
fairness, which the provers do not do), and the two violations. What a recursive
function computes is proved where the model needs it, each time from a least
counterexample as for `SerialRun`; the induction theorems of the library remain
out of the provers' reach.

## 6. What is not modelled, and why

Slashing: the ranks of `SlashingManager` have no writer, so they are always
empty, and its two functions on the registry read endorsements, reputation and
commitments, which have none outside tests. Re-anchoring: a set that only grows
and a test of membership in it, without a caller and without anything that begins
an epoch. A model of either would consist of the environment it assumes. The
checks of Verkle witnesses in `stateless.rs` compare hashes of their arguments.

Cryptography below the tables, KZG, NMT, attestation and zero-knowledge proofs
(primitives: a model would assume what it checks), DID documents and the DID
command line (sequential, no state to relate), static configuration, the tunnel and
handshake (a library's), the notification loop (it logs), the velocity formula
(one pure function), modules not compiled (`actuator.rs`) or retired, the
paymaster contract and scripts.
